---- MODULE Spec2Model ----
(***************************************************************************)
(* A model of the Discord archive pipeline of discord.wafer.space:         *)
(*   scripts/state.py            StateManager (the tracking-state store)   *)
(*   scripts/merge_state.py      merge_states (three-way state merge)      *)
(*   scripts/export_channels.py  export_all_channels (the export loop)     *)
(*   scripts/organize_exports.py organize_exports (the consolidation)      *)
(*                                                                         *)
(* Encoding of Python/JSON values.  A dict is a function whose domain is a *)
(* set of strings ({} is EmptyDict).  TLC cannot compare a function with a *)
(* string, so Python's None is written in two ways, by the type of the     *)
(* slot it sits in: None (a record no dict of the program equals) where    *)
(* the code expects a dict, and Null (the JSON text null) where it expects *)
(* a string.                                                               *)
(***************************************************************************)
EXTENDS Integers, Sequences, FiniteSets, TLC

VARIABLES
    state,      \* StateManager.state of the running export process
    disk,       \* the content of state.json on disk
    clock,      \* the wall clock (datetime.now), in whole ticks
    orch,       \* export_all_channels: position in its nested loops, locals
    summary,    \* export_all_channels: the summary dict it returns
    config,     \* load_config(): the configuration of the export process
    exportsDir, \* the staging tree exports/: the paths that exist in it
    log,        \* history: the export commands issued in the current run
    runStart,   \* history: what the current run found when it started
    committed,  \* history: the watermark written by each entity's last commit
    listing,    \* what DiscordChatExporter lists for the guilds
    listed,     \* history: the guilds the current run listed, and how it went
    ours,       \* merge_state: the state.json of the branch rebased onto
    theirs,     \* merge_state: the state.json of the commit being rebased
    merged,     \* merge_state: the document merge_states returned
    mpc,        \* merge_state: "base", "race" (two runs diverge) or "merged"
    base,       \* history: the common ancestor of ours and theirs
    wrote,      \* history: the watermarks each of the two runs committed
    staged,     \* organize_exports: the export files under exports/
    public,     \* organize_exports: the files and symlinks under public/
    month,      \* organize_exports: the calendar month, a position in Months
    opc,        \* organize_exports: "staging" or "organized"
    stateFile,  \* StateManager: the bytes of state.json, as JSON tokens
    spc,        \* StateManager: where the process that owns the store is
    prior,      \* history: the call being saved, the file and store around it
    rawTitle,   \* sanitize_thread_name: the title, as characters
    threadId,   \* sanitize_thread_name: the fallback id, as characters
    names,      \* sanitize_thread_name: the results of successive calls
    rec,        \* classify_channel: the record that is classified
    forums,     \* classify_channel: the forum list of the configuration
    siblings,   \* classify_channel: all records of the listing, in its order
    kinds,      \* classify_channel: the results, each with the order used
    faults,     \* organize_exports: what goes wrong for each staged file
    todo,       \* organize_exports: the staged files the loops have not seen
    stats,      \* organize_exports: the stats dict it returns
    posts,      \* the instants at which the channel's messages were posted
    cap         \* the export of that channel: position, cutoff, what it read

exportVars == <<state, disk, clock, orch, summary, config, exportsDir, log,
                runStart, committed, listing, listed>>

\* The export process without its store, its file and its clock
exportRests == <<orch, summary, config, exportsDir, log, runStart, committed,
                 listing, listed>>

\* The export process without its clock
exportRest == <<state, disk, orch, summary, config, exportsDir, log, runStart,
                committed, listing, listed>>

mergeVars == <<ours, theirs, merged, mpc, base, wrote>>

orgVars == <<staged, public, month, opc>>

storeVars == <<stateFile, spc, prior>>

nameVars == <<rawTitle, threadId, names>>

classVars == <<rec, forums, siblings, kinds>>

faultVars == <<faults, todo, stats>>
captureVars == <<posts, cap>>

\* The variables of the calls that are checked on their own
restVars == <<nameVars, classVars, faultVars, captureVars>>

vars == <<exportVars, mergeVars, orgVars, storeVars, restVars>>

-----------------------------------------------------------------------------
(* Bounds of the model.                                                    *)

\* Number of export runs (export_all_channels calls) a behaviour holds.
MaxRuns == 2

\* The last tick of the clock while two runs race.
MaxClock == 2

-----------------------------------------------------------------------------
(* Python values.                                                          *)

EmptyDict == [k \in {} |-> k]

None == [None |-> TRUE]

Null == "null"

\* d.get(k, default)
Get(d, k, default) == IF k \in DOMAIN d THEN d[k] ELSE default

\* d[k] = v
Put(d, k, v) == [x \in DOMAIN d \cup {k} |-> IF x = k THEN v ELSE d[x]]

\* `not d` for a dict-typed value: {} and None are falsy
FalsyDict(d) == d = EmptyDict \/ d = None

\* `not s` for a string-typed value: "" and None are falsy
FalsyStr(s) == s = "" \/ s = Null

-----------------------------------------------------------------------------
(* Timestamps: datetime.now(UTC).isoformat() and its parse.                *)

\* Day n of January 2025 as two digits; the clock of the model counts days.
TwoDigits(n) == IF n < 10 THEN "0" \o ToString(n) ELSE ToString(n)

\* datetime.isoformat() of the instant n (an aware datetime, UTC)
IsoFormat(n) == "2025-01-" \o TwoDigits(n) \o "T00:00:00+00:00"

\* The same instant in the Z notation that state files and tests also use
ZFormat(n) == "2025-01-" \o TwoDigits(n) \o "T00:00:00Z"

\* The instants whose texts the model writes
Instants == 1 .. 9

\* A parse that failed (parse_timestamp returns None)
NoTime == 0

\* ts.replace("Z", "+00:00") on the timestamp texts of the model
ReplaceZ(ts) ==
    IF \E n \in Instants : ts = ZFormat(n)
    THEN IsoFormat(CHOOSE n \in Instants : ts = ZFormat(n))
    ELSE ts

\* merge_state.parse_timestamp: the instant of an ISO text, NoTime for None,
\* for the empty string and for a text datetime.fromisoformat rejects
parse_timestamp(ts) ==
    IF FalsyStr(ts) THEN NoTime
    ELSE LET t == ReplaceZ(ts)
         IN  IF \E n \in Instants : t = IsoFormat(n)
             THEN CHOOSE n \in Instants : t = IsoFormat(n)
             ELSE NoTime

-----------------------------------------------------------------------------
(* scripts/state.py: StateManager.                                         *)

\* StateManager.load: a missing file (None) gives the empty state
load(file) == IF file = None THEN EmptyDict ELSE file

\* StateManager.save: json.dump of the whole state over the file
save(st) == st

\* `if server not in self.state: self.state[server] = {}`
WithServer(st, server) ==
    IF server \in DOMAIN st THEN st ELSE Put(st, server, EmptyDict)

\* StateManager.update_channel, up to its save()
update_channel(st, server, channel, timestamp, message_id) ==
    LET s1 == WithServer(st, server)
    IN  Put(s1, server,
            Put(s1[server], channel,
                [last_export |-> timestamp, last_message_id |-> message_id]))

\* StateManager.get_channel_state
get_channel_state(st, server, channel) ==
    IF server \notin DOMAIN st THEN None ELSE Get(st[server], channel, None)

\* StateManager.update_thread_state, up to its save(); thread_info is the
\* ThreadInfo dataclass, now is datetime.now(timezone.utc)
update_thread_state(st, server, forum, thread_info, now) ==
    LET s1 == WithServer(st, server)
        sv1 == s1[server]
        sv2 == IF "forums" \in DOMAIN sv1 THEN sv1
               ELSE Put(sv1, "forums", EmptyDict)
        fs1 == sv2["forums"]
        fs2 == IF forum \in DOMAIN fs1 THEN fs1
               ELSE Put(fs1, forum, [threads |-> EmptyDict])
        f1 == fs2[forum]
        f2 == IF "threads" \in DOMAIN f1 THEN f1
              ELSE Put(f1, "threads", EmptyDict)
        leaf == [name |-> thread_info.thread_name,
                 title |-> thread_info.thread_title,
                 last_export |-> IsoFormat(now),
                 last_message_id |-> thread_info.last_message_id,
                 archived |-> thread_info.archived]
        f3 == Put(f2, "threads", Put(f2["threads"], thread_info.thread_id, leaf))
    IN  Put(s1, server, Put(sv2, "forums", Put(fs2, forum, f3)))

\* StateManager.get_thread_state
get_thread_state(st, server, forum, thread_id) ==
    LET sv == Get(st, server, EmptyDict)
        fs == Get(sv, "forums", EmptyDict)
        f == Get(fs, forum, EmptyDict)
        ts == Get(f, "threads", EmptyDict)
    IN  Get(ts, thread_id, None)

\* StateManager.update_forum_index_timestamp, up to its save()
update_forum_index_timestamp(st, server, forum, now) ==
    LET s1 == WithServer(st, server)
        sv1 == s1[server]
        sv2 == IF "forums" \in DOMAIN sv1 THEN sv1
               ELSE Put(sv1, "forums", EmptyDict)
        fs1 == sv2["forums"]
        fs2 == IF forum \in DOMAIN fs1 THEN fs1 ELSE Put(fs1, forum, EmptyDict)
        f2 == Put(fs2[forum], "last_index_update", IsoFormat(now))
    IN  Put(s1, server, Put(sv2, "forums", Put(fs2, forum, f2)))

-----------------------------------------------------------------------------
(* scripts/merge_state.py                                                  *)

\* A dict literal with one optional key
Opt(present, k, v) == IF present THEN k :> v ELSE EmptyDict

\* A leaf choice that never looks at which timestamp is later
PickThreadKeepOurs(our_data, their_data) ==
    LET our_ts == parse_timestamp(Get(our_data, "last_export", Null))
        their_ts == parse_timestamp(Get(their_data, "last_export", Null))
    IN  IF our_ts = NoTime THEN their_data
        ELSE our_data

\* merge_thread_data, both sides have data: compare timestamps
PickThread(our_data, their_data) ==
    LET our_ts == parse_timestamp(Get(our_data, "last_export", Null))
        their_ts == parse_timestamp(Get(their_data, "last_export", Null))
    IN  IF our_ts = NoTime THEN their_data
        ELSE IF their_ts = NoTime THEN our_data
        ELSE IF their_ts > our_ts THEN their_data
        ELSE our_data

\* merge_thread_data
merge_thread_data(our, their) ==
    [key \in DOMAIN our \cup DOMAIN their |->
        LET our_data == Get(our, key, EmptyDict)
            their_data == Get(their, key, EmptyDict)
        IN  IF FalsyDict(our_data) THEN their_data
            ELSE IF FalsyDict(their_data) THEN our_data
            ELSE PickThread(our_data, their_data)]

\* merge_forum_data, both sides have data: merge nested structures
MergeForum(our_data, their_data) ==
    LET our_ts == parse_timestamp(Get(our_data, "last_index_generation", Null))
        their_ts == parse_timestamp(Get(their_data, "last_index_generation",
                                        Null))
        has_index == "last_index_generation" \in DOMAIN our_data
                        \/ "last_index_generation" \in DOMAIN their_data
    IN  Opt("threads" \in DOMAIN our_data \/ "threads" \in DOMAIN their_data,
            "threads",
            merge_thread_data(Get(our_data, "threads", EmptyDict),
                              Get(their_data, "threads", EmptyDict)))
        @@
        (IF has_index /\ their_ts # NoTime
                /\ (our_ts = NoTime \/ their_ts > our_ts)
         THEN "last_index_generation" :>
                 Get(their_data, "last_index_generation", Null)
         ELSE IF has_index /\ our_ts # NoTime
         THEN "last_index_generation" :>
                 Get(our_data, "last_index_generation", Null)
         ELSE EmptyDict)

\* merge_forum_data
merge_forum_data(our, their) ==
    [key \in DOMAIN our \cup DOMAIN their |->
        LET our_data == Get(our, key, EmptyDict)
            their_data == Get(their, key, EmptyDict)
        IN  IF FalsyDict(our_data) THEN their_data
            ELSE IF FalsyDict(their_data) THEN our_data
            ELSE MergeForum(our_data, their_data)]

\* merge_channel_data, both sides have data: compare timestamps
PickChannel(our_data, their_data) ==
    LET our_ts == parse_timestamp(Get(our_data, "last_export", Null))
        their_ts == parse_timestamp(Get(their_data, "last_export", Null))
    IN  IF our_ts = NoTime THEN their_data
        ELSE IF their_ts = NoTime THEN our_data
        ELSE IF their_ts > our_ts THEN their_data
        ELSE our_data

\* merge_channel_data
merge_channel_data(our, their) ==
    [key \in DOMAIN our \cup DOMAIN their |->
        LET our_data == Get(our, key, EmptyDict)
            their_data == Get(their, key, EmptyDict)
        IN  IF FalsyDict(our_data) THEN their_data
            ELSE IF FalsyDict(their_data) THEN our_data
            ELSE PickChannel(our_data, their_data)]

\* merge_server_data
merge_server_data(our, their) ==
    Opt("forums" \in DOMAIN our \/ "forums" \in DOMAIN their, "forums",
        merge_forum_data(Get(our, "forums", EmptyDict),
                         Get(their, "forums", EmptyDict)))
    @@
    Opt("channels" \in DOMAIN our \/ "channels" \in DOMAIN their, "channels",
        merge_channel_data(Get(our, "channels", EmptyDict),
                           Get(their, "channels", EmptyDict)))

\* merge_states
merge_states(our, their) ==
    [server \in DOMAIN our \cup DOMAIN their |->
        LET our_data == Get(our, server, EmptyDict)
            their_data == Get(their, server, EmptyDict)
        IN  IF FalsyDict(our_data) THEN their_data
            ELSE IF FalsyDict(their_data) THEN our_data
            ELSE merge_server_data(our_data, their_data)]

-----------------------------------------------------------------------------
(* Strings as the code reads them, character by character.  TLC strings    *)
(* are atomic, so the names that occur in the model are spelled out here.  *)

Spelling ==
    [general |-> <<"g","e","n","e","r","a","l">>,
     questions |-> <<"q","u","e","s","t","i","o","n","s">>,
     announcements |-> <<"a","n","n","o","u","n","c","e","m","e","n","t","s">>]
    @@ ("How to start?" :>
            <<"H","o","w"," ","t","o"," ","s","t","a","r","t","?">>)
    @@ ("How to start!" :>
            <<"H","o","w"," ","t","o"," ","s","t","a","r","t","!">>)
    @@ ("101" :> <<"1","0","1">>)
    @@ ("302" :> <<"3","0","2">>)
    @@ ("200" :> <<"2","0","0">>)
    @@ ("301" :> <<"3","0","1">>)
    @@ ("401" :> <<"4","0","1">>)
    @@ ("102" :> <<"1","0","2">>)
    @@ ("pending" :> <<"p","e","n","d","i","n","g">>)
    @@ ("unknown" :> <<"u","n","k","n","o","w","n">>)

\* The characters of a string
Chars(s) == Spelling[s]

RECURSIVE Join(_)
\* "".join(cs)
Join(cs) == IF cs = <<>> THEN "" ELSE Head(cs) \o Join(Tail(cs))

Digits == {"0","1","2","3","4","5","6","7","8","9"}

LowerCase == {"a","b","c","d","e","f","g","h","i","j","k","l","m",
              "n","o","p","q","r","s","t","u","v","w","x","y","z"}

\* str.lower() on one character, for the capitals the model spells
Lower(c) ==
    CASE c = "H" -> "h" [] c = "W" -> "w" [] c = "A" -> "a" [] c = "B" -> "b"
      [] OTHER -> c

\* str.isdigit()
isdigit(s) == Chars(s) # <<>> /\ \A i \in DOMAIN Chars(s) : Chars(s)[i] \in Digits

-----------------------------------------------------------------------------
(* scripts/channel_classifier.py                                           *)

\* ChannelType
REGULAR == "regular"

FORUM == "forum"

THREAD == "thread"

\* A classifier that asks the forum list before the parent reference
ClassifyForumFirst(channel, forum_list, all_channels) ==
    IF \E i \in DOMAIN forum_list : forum_list[i] = channel.name THEN FORUM
    ELSE IF ~FalsyStr(channel.parent_id) THEN THREAD
    ELSE IF \E i \in DOMAIN all_channels :
                all_channels[i].parent_id = channel.name THEN FORUM
    ELSE REGULAR

\* classify_channel
classify_channel(channel, forum_list, all_channels) ==
    IF ~FalsyStr(channel.parent_id) THEN THREAD
    ELSE IF \E i \in DOMAIN forum_list : forum_list[i] = channel.name THEN FORUM
    ELSE IF \E i \in DOMAIN all_channels :
                all_channels[i].parent_id = channel.name THEN FORUM
    ELSE REGULAR

\* sanitize_thread_name keeps at most this many characters
MaxNameLen == 100

\* sanitize_thread_name falls back to the id below this length
MinNameLen == 3

\* re.sub(r"[^a-z0-9-]", "", name)
DropSpecial(cs) == SelectSeq(cs, LAMBDA c : c \in LowerCase \cup Digits \cup {"-"})

\* re.sub(r"-+", "-", name): of every run of hyphens one hyphen stays
CollapseHyphens(cs) ==
    LET marked == [i \in DOMAIN cs |->
                      [c |-> cs[i],
                       keep |-> ~(cs[i] = "-" /\ i < Len(cs) /\ cs[i + 1] = "-")]]
        kept == SelectSeq(marked, LAMBDA m : m.keep)
    IN  [k \in DOMAIN kept |-> kept[k].c]

\* The positions of cs that hold something else than a hyphen
NonHyphens(cs) == {i \in DOMAIN cs : cs[i] # "-"}

\* name.lstrip("-")
LStrip(cs) ==
    IF NonHyphens(cs) = {} THEN << >>
    ELSE SubSeq(cs, CHOOSE i \in NonHyphens(cs) :
                        \A j \in NonHyphens(cs) : i <= j, Len(cs))

\* name.rstrip("-")
RStrip(cs) ==
    IF NonHyphens(cs) = {} THEN << >>
    ELSE SubSeq(cs, 1, CHOOSE i \in NonHyphens(cs) :
                           \A j \in NonHyphens(cs) : j <= i)

\* sanitize_thread_name up to name.strip("-"), on the characters of a title
Stripped(title) ==
    LET lowered == [i \in DOMAIN title |-> Lower(title[i])]
        hyphened == [i \in DOMAIN lowered |->
                        IF lowered[i] = " " THEN "-" ELSE lowered[i]]
        cleaned == DropSpecial(hyphened)
        collapsed == CollapseHyphens(cleaned)
    IN  RStrip(LStrip(collapsed))

\* sanitize_thread_name up to name[:100]: the cleaned title
Cleaned(title) ==
    LET stripped == Stripped(title)
    IN  SubSeq(stripped, 1,
               IF Len(stripped) < MaxNameLen THEN Len(stripped)
               ELSE MaxNameLen)

\* f"thread-{thread_id}"
Fallback(id) == <<"t","h","r","e","a","d","-">> \o id

\* A sanitizer that leaves out name[:100]
SanitizeCharsNoCut(title, id) ==
    IF Len(Stripped(title)) < MinNameLen /\ id # <<>>
    THEN Fallback(id)
    ELSE Stripped(title)

\* sanitize_thread_name on the characters of a title; the result as
\* characters.  An id of None or "" is the empty sequence
SanitizeChars(title, id) ==
    IF Len(Cleaned(title)) < MinNameLen /\ id # <<>>
    THEN Fallback(id)
    ELSE Cleaned(title)

\* sanitize_thread_name(title, thread_id)
sanitize_thread_name(title, thread_id) ==
    Join(SanitizeChars(Chars(title), Chars(thread_id)))

-----------------------------------------------------------------------------
(* scripts/export_channels.py: configuration and the listing collaborator. *)

\* config["servers"]: the server keys, in the order the loop visits them
Servers == <<"wafer-space", "other">>

\* The configurations load_config() may return
Configs ==
    { [formats |-> <<"html">>, include_channels |-> <<"*">>,
       exclude_channels |-> <<>>, forum_channels |-> <<>>],
      [formats |-> <<"html", "json">>, include_channels |-> <<"*">>,
       exclude_channels |-> <<>>, forum_channels |-> <<>>],
      [formats |-> <<"json">>, include_channels |-> <<"*">>,
       exclude_channels |-> <<"general">>, forum_channels |-> <<"questions">>],
      [formats |-> <<"html">>,
       include_channels |-> <<"general", "How to start?">>,
       exclude_channels |-> <<"How to start?">>,
       forum_channels |-> <<"questions">>] }

\* The rows DiscordChatExporter prints for a guild, each as _parse_channel_line
\* returns it, with is_thread for a row that starts with " * "
Rows(server) ==
    IF server = "wafer-space"
    THEN << [id |-> "101", name |-> "general", parent_id |-> Null,
             is_thread |-> FALSE],
            [id |-> "200", name |-> "questions", parent_id |-> Null,
             is_thread |-> FALSE],
            [id |-> "301", name |-> "How to start?", parent_id |-> "Thread",
             is_thread |-> TRUE] >>
    ELSE << [id |-> "401", name |-> "general", parent_id |-> Null,
             is_thread |-> FALSE] >>

\* The rows of a guild whose channels sit in categories: a row is printed
\* as "id | Category / name"; one row of the other guild has an id that is
\* not a number
CategoryRows(server) ==
    IF server = "wafer-space"
    THEN << [id |-> "101", name |-> "general", parent_id |-> "Info",
             is_thread |-> FALSE],
            [id |-> "301", name |-> "How to start?", parent_id |-> "Thread",
             is_thread |-> TRUE],
            [id |-> "102", name |-> "announcements", parent_id |-> Null,
             is_thread |-> FALSE] >>
    ELSE << [id |-> "pending", name |-> "general", parent_id |-> Null,
             is_thread |-> FALSE] >>

\* The rows of a guild whose forum has two threads with titles that differ
\* in their punctuation only
TwinRows(server) ==
    IF server = "wafer-space"
    THEN << [id |-> "200", name |-> "questions", parent_id |-> Null,
             is_thread |-> FALSE],
            [id |-> "301", name |-> "How to start?", parent_id |-> "Thread",
             is_thread |-> TRUE],
            [id |-> "302", name |-> "How to start!", parent_id |-> "Thread",
             is_thread |-> TRUE] >>
    ELSE << [id |-> "401", name |-> "general", parent_id |-> Null,
             is_thread |-> FALSE] >>

\* The listings DiscordChatExporter may print
Listings == {"flat", "categories", "twins"}

\* The rows of the listing in force
ListedRows(server) ==
    IF listing = "categories" THEN CategoryRows(server)
    ELSE IF listing = "twins" THEN TwinRows(server)
    ELSE Rows(server)

RECURSIVE FetchLoop(_, _, _, _, _)
\* fetch_guild_channels, the loop over the parsed rows: the channel dicts and
\* channel_path_map
FetchLoop(rows, i, current_parent_channel, channels, channel_path_map) ==
    IF i > Len(rows) THEN [channels |-> channels, path_map |-> channel_path_map]
    ELSE LET row == rows[i]
             parent == IF row.is_thread /\ row.parent_id = "Thread"
                          /\ ~FalsyStr(current_parent_channel)
                       THEN current_parent_channel ELSE row.parent_id
             channel == [name |-> row.name, id |-> row.id, parent_id |-> parent]
         IN  IF row.is_thread
             THEN FetchLoop(rows, i + 1, current_parent_channel,
                            Append(channels, channel), channel_path_map)
             ELSE FetchLoop(rows, i + 1, channel.name,
                            Append(channels, channel),
                            Put(channel_path_map, channel.name,
                                IF ~FalsyStr(channel.parent_id)
                                THEN channel.parent_id \o "/" \o channel.name
                                ELSE channel.name))

\* fetch_guild_channels on a listing that succeeded
fetch_guild_channels(server) ==
    FetchLoop(ListedRows(server), 1, Null, <<>>, EmptyDict)

\* fnmatch.fnmatch for the patterns of the model: "*" and wildcard-free names
fnmatch(name, pattern) == pattern = "*" \/ pattern = name

\* A filter that asks the include patterns first and the exclude patterns
\* only for a name no include pattern matches
ShouldIncludeIncludeFirst(channel_name, include_patterns, exclude_patterns) ==
    IF \E i \in DOMAIN include_patterns : fnmatch(channel_name, include_patterns[i])
    THEN TRUE
    ELSE FALSE

\* should_include_channel
should_include_channel(channel_name, include_patterns, exclude_patterns) ==
    IF \E i \in DOMAIN exclude_patterns : fnmatch(channel_name, exclude_patterns[i])
    THEN FALSE
    ELSE IF \E i \in DOMAIN include_patterns : include_patterns[i] = "*"
    THEN TRUE
    ELSE \E i \in DOMAIN include_patterns : fnmatch(channel_name, include_patterns[i])

\* _determine_export_location: (safe_name, export_dir, forum_name)
DetermineExportLocation(channel, channel_type, channel_id, server_dir, channel_path_map) ==
    IF channel_type = THREAD
    THEN LET forum_name_simple == IF ~FalsyStr(channel.parent_id)
                                  THEN channel.parent_id ELSE "unknown-forum"
             forum_full_path == Get(channel_path_map, forum_name_simple,
                                    forum_name_simple)
         IN  [safe_name |-> sanitize_thread_name(
                                IF ~FalsyStr(channel.name) THEN channel.name
                                ELSE "unknown", channel_id),
              export_dir |-> server_dir \o "/" \o forum_full_path,
              forum_name |-> forum_full_path,
              mkdir |-> {server_dir \o "/" \o forum_full_path}]
    ELSE [safe_name |-> IF ~FalsyStr(channel.name) THEN channel.name
                        ELSE "unknown",
          export_dir |-> server_dir,
          forum_name |-> "",
          mkdir |-> {}]

\* A cutoff lookup that asks for a thread's state by its title, not its id
GetLastExportTimestampByName(st, server_key, channel_type, channel_name, channel_id, forum_name) ==
    IF channel_type = THREAD
    THEN LET thread_state == get_thread_state(st, server_key, forum_name,
                                              channel_name)
         IN  IF ~FalsyDict(thread_state) THEN thread_state["last_export"]
             ELSE Null
    ELSE LET channel_state == get_channel_state(st, server_key, channel_name)
         IN  IF ~FalsyDict(channel_state) THEN channel_state["last_export"]
             ELSE Null

\* _get_last_export_timestamp
GetLastExportTimestamp(st, server_key, channel_type, channel_name, channel_id, forum_name) ==
    IF channel_type = THREAD
    THEN LET thread_state == get_thread_state(st, server_key, forum_name,
                                              channel_id)
         IN  IF ~FalsyDict(thread_state) THEN thread_state["last_export"]
             ELSE Null
    ELSE LET channel_state == get_channel_state(st, server_key, channel_name)
         IN  IF ~FalsyDict(channel_state) THEN channel_state["last_export"]
             ELSE Null

\* _update_channel_state_after_export, up to the save() of the update
UpdateChannelStateAfterExport(st, server_key, channel_type, channel_info, now) ==
    IF channel_type = THREAD
    THEN update_thread_state(st, server_key, channel_info.forum_name,
             [thread_id |-> channel_info.channel_id,
              thread_name |-> channel_info.safe_name,
              thread_title |-> channel_info.channel_name,
              last_message_id |-> Null,
              archived |-> FALSE], now)
    ELSE update_channel(st, server_key, channel_info.channel_name,
                        IsoFormat(now), "placeholder_message_id")

\* format_map of _export_channel_formats
format_map ==
    [html |-> "HtmlDark", txt |-> "PlainText", json |-> "Json", csv |-> "Csv"]

\* What the exporter process may do with one command
Outcomes == {"ok", "exit1", "timeout", "raised"}

\* run_export: (success, output) for each outcome of subprocess.run
run_export(outcome) ==
    CASE outcome = "ok" -> [success |-> TRUE, output |-> "exported"]
      [] outcome = "exit1" -> [success |-> FALSE, output |-> "exit status 1"]
      [] outcome = "timeout" ->
            [success |-> FALSE, output |-> "Export timed out after 300 seconds"]
      [] OTHER -> [success |-> FALSE, output |-> "Export failed: OSError"]

\* format_export_command: the command line, as the fields the exporter reads;
\* --after is passed only for a non-empty cutoff
format_export_command(channel_id, output_path, format_type, after_timestamp) ==
    [channel_id |-> channel_id, output_path |-> output_path,
     format_type |-> format_type,
     after |-> IF FalsyStr(after_timestamp) THEN Null ELSE after_timestamp]

\* format_export_command raises ValueError, or format_map[fmt] KeyError
CommandRaises(channel_id, fmt) ==
    fmt \notin DOMAIN format_map \/ ~isdigit(channel_id)

\* A commit rule that advances the state once any format succeeded
ShouldCommitAnySuccess(exports_completed, failures) == exports_completed > 0

\* `if failures == 0:` of _process_single_channel
ShouldCommit(exports_completed, failures) == failures = 0

\* The entity a state entry belongs to: a regular channel by its name, a
\* thread by its resolved forum path and its id
EntityKey(server_key, channel_type, channel_info) ==
    IF channel_type = THREAD
    THEN [server |-> server_key, kind |-> THREAD,
          forum |-> channel_info.forum_name, id |-> channel_info.channel_id]
    ELSE [server |-> server_key, kind |-> "channel", forum |-> "",
          id |-> channel_info.channel_name]

-----------------------------------------------------------------------------
(* scripts/export_channels.py: export_all_channels, step by step.  The     *)
(* process is sequential; it is split where it waits for an external       *)
(* process (the listing, each export command).                             *)

NoInfo == [channel_id |-> "", channel_name |-> "", safe_name |-> "",
           forum_name |-> ""]

IdleOrch ==
    [pc |-> "idle", run |-> 0, g |-> 1, channels |-> <<>>,
     path_map |-> EmptyDict, types |-> EmptyDict, i |-> 1, f |-> 1,
     channel_type |-> REGULAR, info |-> NoInfo, export_dir |-> "",
     after_timestamp |-> Null, exports_completed |-> 0, failures |-> 0,
     errors |-> <<>>]

EmptySummary ==
    [channels_updated |-> 0, channels_failed |-> 0, total_exports |-> 0,
     errors |-> <<>>]

\* A loop that ends at the first server instead of moving to the next
NextGuildStop(o) == [o EXCEPT !.pc = "save"]

\* The loop `for server_key, server_config in config["servers"].items()`
\* moves to the next server, or leaves the loop for the final save
NextGuild(o) ==
    IF o.g >= Len(Servers) THEN [o EXCEPT !.pc = "save"]
    ELSE [o EXCEPT !.pc = "fetch", !.g = o.g + 1]

\* The classification loop of export_all_channels
Classify(channels, forum_list) ==
    [id \in {channels[k].id : k \in {j \in DOMAIN channels :
                                        ~FalsyStr(channels[j].id)}} |->
        LET last == CHOOSE k \in DOMAIN channels :
                        /\ channels[k].id = id
                        /\ \A j \in DOMAIN channels :
                              channels[j].id = id => j <= k
        IN  classify_channel(channels[last], forum_list, channels)]

\* The regular channels and threads a guild lists, with the key of each in
\* the tracking state and the directory its files go to
EntitiesOf(server) ==
    LET got == fetch_guild_channels(server)
        types == Classify(got.channels, config.forum_channels)
    IN  {[server |-> server, name |-> got.channels[i].name,
          key |-> LET loc == DetermineExportLocation(got.channels[i],
                                 types[got.channels[i].id],
                                 got.channels[i].id, "exports/" \o server,
                                 got.path_map)
                  IN  EntityKey(server, types[got.channels[i].id],
                                [channel_id |-> got.channels[i].id,
                                 channel_name |-> got.channels[i].name,
                                 safe_name |-> loc.safe_name,
                                 forum_name |-> loc.forum_name])] :
            i \in {j \in DOMAIN got.channels :
                      /\ ~FalsyStr(got.channels[j].id)
                      /\ ~FalsyStr(got.channels[j].name)
                      /\ types[got.channels[j].id] # FORUM}}

\* export_all_channels from its start to the first listing
StartRun ==
    /\ orch.pc = "idle"
    /\ orch.run < MaxRuns
    /\ state' = load(disk)
    /\ clock' = clock + 1
    /\ summary' = EmptySummary
    /\ orch' = [IdleOrch EXCEPT !.pc = "fetch", !.run = orch.run + 1]
    /\ exportsDir' = {"exports"}
    /\ log' = <<>>
    /\ runStart' = [state |-> load(disk), committed |-> committed]
    /\ listed' = EmptyDict
    /\ UNCHANGED <<disk, config, listing, committed>>
    /\ UNCHANGED <<mergeVars, orgVars, storeVars, restVars>>

\* One server of the loop: server_dir.mkdir, fetch_guild_channels (which fails
\* on a non-zero exit, a timeout or an error), classification
FetchChannels ==
    /\ orch.pc = "fetch"
    /\ \E success \in BOOLEAN :
        LET server_dir == "exports/" \o Servers[orch.g]
            got == fetch_guild_channels(Servers[orch.g])
        IN  /\ exportsDir' = exportsDir \cup {server_dir}
            /\ listed' = Put(listed, Servers[orch.g],
                             [ok |-> success,
                              entities |-> EntitiesOf(Servers[orch.g])])
            /\ IF success
               THEN /\ orch' = [orch EXCEPT
                                  !.pc = "channel",
                                  !.channels = got.channels,
                                  !.path_map = got.path_map,
                                  !.types = Classify(got.channels,
                                                     config.forum_channels),
                                  !.i = 1]
                    /\ UNCHANGED summary
               ELSE /\ orch' = NextGuild(orch)
                    /\ summary' = [summary EXCEPT !.errors =
                          Append(@, [channel |-> "N/A", format |-> "N/A",
                                     error |-> "Failed to fetch channels"])]
    /\ UNCHANGED <<state, disk, clock, config, listing, log, runStart, committed>>
    /\ UNCHANGED <<mergeVars, orgVars, storeVars, restVars>>

\* The channels of the server are exhausted
EndGuild ==
    /\ orch.pc = "channel"
    /\ orch.i > Len(orch.channels)
    /\ orch' = NextGuild(orch)
    /\ UNCHANGED <<state, disk, clock, summary, config, listing, exportsDir, log,
                   runStart, committed>>
    /\ UNCHANGED listed
    /\ UNCHANGED <<mergeVars, orgVars, storeVars, restVars>>

\* _process_single_channel up to its first export command: a malformed
\* record, a forum and a filtered channel are skipped, any other channel
\* gets its location and its cutoff
ProcessChannel ==
    /\ orch.pc = "channel"
    /\ orch.i <= Len(orch.channels)
    /\ LET channel == orch.channels[orch.i]
           server_key == Servers[orch.g]
           server_dir == "exports/" \o server_key
           skip == [orch EXCEPT !.i = orch.i + 1]
       IN  IF FalsyStr(channel.id) \/ FalsyStr(channel.name)
           THEN orch' = skip /\ UNCHANGED exportsDir
           ELSE LET channel_type == orch.types[channel.id]
                    loc == DetermineExportLocation(channel, channel_type,
                               channel.id, server_dir, orch.path_map)
                    info == [channel_id |-> channel.id,
                             channel_name |-> channel.name,
                             safe_name |-> loc.safe_name,
                             forum_name |-> loc.forum_name]
                IN  IF channel_type = FORUM
                    THEN /\ orch' = skip
                         /\ exportsDir' = exportsDir
                               \cup {server_dir \o "/" \o channel.name}
                    ELSE /\ exportsDir' = exportsDir \cup loc.mkdir
                         /\ IF ~should_include_channel(channel.name,
                                   config.include_channels,
                                   config.exclude_channels)
                            THEN orch' = skip
                            ELSE orch' = [orch EXCEPT
                                    !.pc = "export", !.f = 1,
                                    !.channel_type = channel_type,
                                    !.info = info,
                                    !.export_dir = loc.export_dir,
                                    !.after_timestamp =
                                        GetLastExportTimestamp(state,
                                            server_key, channel_type,
                                            channel.name, channel.id,
                                            loc.forum_name),
                                    !.exports_completed = 0,
                                    !.failures = 0,
                                    !.errors = <<>>]
    /\ UNCHANGED <<state, disk, clock, summary, config, listing, log, runStart,
                   committed>>
    /\ UNCHANGED listed
    /\ UNCHANGED <<mergeVars, orgVars, storeVars, restVars>>

\* One iteration of the loop of _export_channel_formats: one export command
\* and its outcome; after the last format, the rest of
\* _process_single_channel (the commit, or none) and the summary update of
\* export_all_channels
RunExport ==
    /\ orch.pc = "export"
    /\ \E outcome \in Outcomes :
        LET fmt == config.formats[orch.f]
            server_key == Servers[orch.g]
            output_path == orch.export_dir \o "/" \o orch.info.safe_name
                              \o "." \o fmt
        IN  IF CommandRaises(orch.info.channel_id, fmt)
            THEN /\ orch' = [orch EXCEPT !.pc = "crashed"]
                 /\ UNCHANGED <<state, disk, summary, exportsDir, log,
                                committed>>
            ELSE
            LET cmd == format_export_command(orch.info.channel_id,
                           output_path, format_map[fmt], orch.after_timestamp)
                res == run_export(outcome)
                done == orch.exports_completed + (IF res.success THEN 1 ELSE 0)
                failures == orch.failures + (IF res.success THEN 0 ELSE 1)
                errors == IF res.success THEN orch.errors
                          ELSE Append(orch.errors,
                                   [channel |-> orch.info.channel_name,
                                    format |-> fmt, error |-> res.output])
                key == EntityKey(server_key, orch.channel_type, orch.info)
            IN  /\ log' = Append(log, [entity |-> key, format |-> fmt,
                                       channel |-> orch.info.channel_name,
                                       id |-> orch.info.channel_id,
                                       path |-> cmd.output_path,
                                       after |-> cmd.after,
                                       success |-> res.success])
                /\ exportsDir' = IF res.success
                                 THEN exportsDir \cup {output_path}
                                 ELSE exportsDir
                /\ IF orch.f < Len(config.formats)
                   THEN /\ orch' = [orch EXCEPT !.f = orch.f + 1,
                                       !.exports_completed = done,
                                       !.failures = failures,
                                       !.errors = errors]
                        /\ UNCHANGED <<state, disk, summary, committed>>
                   ELSE /\ orch' = [orch EXCEPT !.pc = "channel",
                                       !.i = orch.i + 1,
                                       !.exports_completed = done,
                                       !.failures = failures,
                                       !.errors = errors]
                        /\ IF ShouldCommit(done, failures)
                           THEN /\ state' = UpdateChannelStateAfterExport(
                                       state, server_key, orch.channel_type,
                                       orch.info, clock)
                                /\ disk' = save(state')
                                /\ committed' = Put(committed, key,
                                                    IsoFormat(clock))
                                /\ summary' = [summary EXCEPT
                                       !.total_exports = @ + done,
                                       !.channels_updated = @ + 1,
                                       !.errors = @ \o errors]
                           ELSE /\ summary' = [summary EXCEPT
                                       !.total_exports = @ + done,
                                       !.channels_failed = @ + failures,
                                       !.errors = @ \o errors]
                                /\ UNCHANGED <<state, disk, committed>>
    /\ UNCHANGED <<clock, config, listing, runStart>>
    /\ UNCHANGED listed
    /\ UNCHANGED <<mergeVars, orgVars, storeVars, restVars>>

\* The end of export_all_channels: state_manager.save() and the return
SaveState ==
    /\ orch.pc = "save"
    /\ disk' = save(state)
    /\ orch' = [orch EXCEPT !.pc = "idle"]
    /\ UNCHANGED <<state, clock, summary, config, listing, exportsDir, log, runStart,
                   committed>>
    /\ UNCHANGED listed
    /\ UNCHANGED <<mergeVars, orgVars, storeVars, restVars>>

\* No export process has run
ExportOff ==
    /\ state = EmptyDict
    /\ disk = None
    /\ orch = IdleOrch
    /\ summary = EmptySummary
    /\ exportsDir = {}
    /\ log = <<>>
    /\ runStart = [state |-> EmptyDict, committed |-> EmptyDict]
    /\ committed = EmptyDict
    /\ listed = EmptyDict

\* No merge is under way
MergeOff ==
    /\ ours = EmptyDict
    /\ theirs = EmptyDict
    /\ merged = EmptyDict
    /\ mpc = "off"
    /\ base = EmptyDict
    /\ wrote = EmptyDict

\* No consolidation is under way
OrgOff ==
    /\ staged = EmptyDict
    /\ public = [files |-> EmptyDict, links |-> EmptyDict]
    /\ month = 1
    /\ opc = "off"

\* No StateManager of its own process is at work
StoreOff ==
    /\ stateFile = [exists |-> FALSE, text |-> <<>>]
    /\ spc = "off"
    /\ prior = [call |-> [op |-> "none"], before |-> None, after |-> None]

\* No channel is watched for its messages
IdleCap == [pc |-> "idle", f |-> 0, after |-> Null, failures |-> 0,
            seen |-> {}, kept |-> {}]
CaptureOff ==
    /\ posts = {}
    /\ cap = IdleCap

\* No consolidation with faults is under way
FaultsOff ==
    /\ faults = EmptyDict
    /\ todo = {}
    /\ stats = [files_organized |-> 0, errors |-> <<>>]

\* No record is being classified
ClassOff ==
    /\ rec = [id |-> "", name |-> "", parent_id |-> Null]
    /\ forums = <<>>
    /\ siblings = <<>>
    /\ kinds = <<>>

\* No name is being sanitized
NamesOff ==
    /\ rawTitle = <<>>
    /\ threadId = <<>>
    /\ names = <<>>

\* The configurations and listings a run is started with: every configuration
\* with the flat listing, the one-format configurations with the listing
\* that has categories, and the configuration that exports everything as
\* html with the listing of the twin threads
Inputs ==
    (Configs \X {"flat"})
        \cup ({c \in Configs : Len(c.formats) = 1} \X {"categories"})
        \cup ({c \in Configs : c.formats = <<"html">> /\ c.exclude_channels = <<>>}
                 \X {"twins"})

Init ==
    /\ ExportOff
    /\ StoreOff
    /\ NamesOff
    /\ ClassOff
    /\ FaultsOff
    /\ CaptureOff
    /\ OrgOff
    /\ clock = 0
    /\ \E input \in Inputs : config = input[1] /\ listing = input[2]
    /\ MergeOff

Next ==
    \/ StartRun
    \/ FetchChannels
    \/ EndGuild
    \/ ProcessChannel
    \/ RunExport
    \/ SaveState

Spec == Init /\ [][Next]_vars

-----------------------------------------------------------------------------
(* The export loop: all-or-nothing commit and the watermark round trip.    *)

\* The stored state of an entity in a tracking-state document, None if the
\* document holds none
Entry(doc, e) ==
    IF doc = None \/ e.server \notin DOMAIN doc THEN None
    ELSE IF e.kind = THREAD
    THEN IF "forums" \notin DOMAIN doc[e.server] THEN None
         ELSE IF e.forum \notin DOMAIN doc[e.server]["forums"] THEN None
         ELSE IF "threads" \notin DOMAIN doc[e.server]["forums"][e.forum]
         THEN None
         ELSE Get(doc[e.server]["forums"][e.forum]["threads"], e.id, None)
    ELSE Get(doc[e.server], e.id, None)

\* The entities the current run has issued export commands for
Exported == {log[k].entity : k \in DOMAIN log}

\* The commands of the current run for an entity
CommandsOf(e) == {k \in DOMAIN log : log[k].entity = e}

\* Some command of the current run for the entity failed
FailedInRun(e) == \E k \in CommandsOf(e) : ~log[k].success

\* The current run has issued every format for the entity and all succeeded
SucceededInRun(e) ==
    /\ Cardinality(CommandsOf(e)) = Len(config.formats)
    /\ \A k \in CommandsOf(e) : log[k].success

-----------------------------------------------------------------------------
(* The export loop: filters, failures and the run summary.                 *)

\* The name matches an exclude pattern of the configuration
Excluded(name) ==
    \E i \in DOMAIN config.exclude_channels :
        fnmatch(name, config.exclude_channels[i])

\* The name passes the filters: no exclude pattern matches it, and the
\* include set holds "*" or a pattern that matches it
Wanted(name) ==
    /\ ~Excluded(name)
    /\ \/ \E i \in DOMAIN config.include_channels :
              config.include_channels[i] = "*"
       \/ \E i \in DOMAIN config.include_channels :
              fnmatch(name, config.include_channels[i])

\* The entities of the guilds the current run has tried to list
ListedEntities == UNION {listed[sv].entities : sv \in DOMAIN listed}

\* The run has gone through all its guilds
RunOver == orch.run > 0 /\ orch.pc \in {"save", "idle"}

\* C15: exclude rules take priority. No export command is issued and no
\* state is stored for an entity whose name matches an exclude pattern, also
\* when an include pattern or "*" matches it; an entity no exclude pattern
\* matches is exported exactly when the include set holds "*" or a pattern
\* that matches its name.
C15_ExcludePriority ==
    /\ \A k \in DOMAIN log : Wanted(log[k].channel)
    /\ \A x \in ListedEntities :
          ~Wanted(x.name) =>
              /\ x.key \notin Exported
              /\ Entry(state, x.key) = None
              /\ Entry(disk, x.key) = None
    /\ RunOver =>
          \A x \in ListedEntities :
              (Wanted(x.name) /\ listed[x.server].ok)
                  => x.key \in Exported

\* A finished run that exported an entity an include pattern names, and left
\* out one that an include and an exclude pattern both name and one that no
\* pattern names
C15_Witness ==
    /\ RunOver
    /\ "*" \notin {config.include_channels[i] :
                      i \in DOMAIN config.include_channels}
    /\ \E x, y, z \in ListedEntities :
        /\ x.key \in Exported /\ SucceededInRun(x.key)
        /\ listed[y.server].ok
        /\ Excluded(y.name)
        /\ \E i \in DOMAIN config.include_channels :
              fnmatch(y.name, config.include_channels[i])
        /\ y.key \notin Exported
        /\ listed[z.server].ok
        /\ ~Excluded(z.name) /\ ~Wanted(z.name)
        /\ z.key \notin Exported

\* C16: an entity the filters reject is skipped with no effect: the step
\* that processes it leaves the tracking state, in memory and on disk, as it
\* is and creates no directory under exports/.
C16_RejectedNoEffect ==
    [][(/\ orch.pc = "channel"
        /\ orch.i <= Len(orch.channels)
        /\ ~FalsyStr(orch.channels[orch.i].id)
        /\ ~FalsyStr(orch.channels[orch.i].name)
        /\ orch.types[orch.channels[orch.i].id] # FORUM
        /\ ~Wanted(orch.channels[orch.i].name))
       => (state' = state /\ disk' = disk /\ exportsDir' = exportsDir)]_vars

\* The error records of the run, those of the entity in progress included
ErrorRecords == summary.errors \o orch.errors

\* C17: export failures are never fatal. Every failed export command (exit
\* status, timeout or raised error) is recorded as an error with its entity
\* and format, and no export failure ends the run.
C17_ExportFailuresNotFatal ==
    /\ orch.pc # "crashed"
    /\ \A k \in DOMAIN log :
          ~log[k].success =>
              \E j \in DOMAIN ErrorRecords :
                  /\ ErrorRecords[j].channel = log[k].channel
                  /\ ErrorRecords[j].format = log[k].format

\* The guilds whose listing failed in the current run
FailedGuilds == {sv \in DOMAIN listed : ~listed[sv].ok}

\* The error records of listing failures
ListingErrors ==
    {j \in DOMAIN summary.errors : summary.errors[j].channel = "N/A"}

\* C18: a listing failure is confined to its guild. No entity of a guild
\* whose listing failed is exported or has its state changed, the run's
\* error list holds one record for each such guild, and a finished run has
\* tried every configured guild and exported the wanted entities of each
\* guild it could list.
C18_ListingFailureConfined ==
    /\ \A x \in ListedEntities :
          x.server \in FailedGuilds =>
              /\ \A k \in DOMAIN log : log[k].entity.server # x.server
              /\ Entry(state, x.key) = Entry(runStart.state, x.key)
              /\ Entry(disk, x.key) = Entry(runStart.state, x.key)
    /\ Cardinality(ListingErrors) = Cardinality(FailedGuilds)
    /\ RunOver =>
          /\ DOMAIN listed = {Servers[g] : g \in DOMAIN Servers}
          /\ \A x \in ListedEntities :
                (Wanted(x.name) /\ x.server \notin FailedGuilds)
                    => x.key \in Exported

\* A finished second run whose first guild could not be listed, though an
\* entity of it has a watermark from the first run, and whose second guild
\* was exported
C18_Witness ==
    /\ RunOver
    /\ orch.run = 2
    /\ Servers[1] \in FailedGuilds
    /\ Servers[2] \notin FailedGuilds
    /\ \E x \in ListedEntities :
          x.server = Servers[1] /\ Entry(runStart.state, x.key) # None
    /\ \E k \in DOMAIN log : log[k].entity.server = Servers[2]

\* C19: the run summary is exact: total_exports counts the export commands
\* that succeeded, channels_updated the entities whose state advanced,
\* channels_failed the entities with a failed format, one for each entity,
\* and errors holds one record for each failed command.
C19_SummaryExact ==
    RunOver =>
        /\ summary.total_exports =
              Cardinality({k \in DOMAIN log : log[k].success})
        /\ summary.channels_updated =
              Cardinality({e \in Exported : SucceededInRun(e)})
        /\ summary.channels_failed =
              Cardinality({e \in Exported : FailedInRun(e)})
        /\ Cardinality(DOMAIN summary.errors \ ListingErrors) =
              Cardinality({k \in DOMAIN log : ~log[k].success})

-----------------------------------------------------------------------------
(* merge_state.py on two state.json documents.                             *)
(* SpecMerge draws the two documents from a bounded set and merges them;   *)
(* SpecRace lets two export runs write them from a common ancestor.        *)

\* main() of merge_state.py between reading the two versions and writing
\* the result: it gives up when both versions are empty
MergeStates ==
    /\ mpc \in {"input", "race"}
    /\ IF FalsyDict(ours) /\ FalsyDict(theirs)
       THEN mpc' = "failed" /\ UNCHANGED merged
       ELSE mpc' = "merged" /\ merged' = merge_states(ours, theirs)
    /\ UNCHANGED <<ours, theirs, base, wrote, exportVars, orgVars, storeVars, restVars>>

\* The server of the documents
S == "wafer-space"

\* The timestamp texts a leaf of a document may carry; "missing" stands for
\* a leaf without the key
LeafTimes ==
    {"missing", Null, "not-a-date", ZFormat(1), IsoFormat(1), IsoFormat(2)}

\* The timestamp texts of documents with two components
PairTimes == {IsoFormat(1), IsoFormat(2)}

\* A channel entry; tag tells the two sides' entries apart
ChanLeaf(ts, tag) ==
    Opt(ts # "missing", "last_export", ts) @@ ("last_message_id" :> tag)

\* A thread entry
ThreadLeaf(ts, tag) ==
    Opt(ts # "missing", "last_export", ts)
    @@ [name |-> "how-to-start", title |-> "How to start?",
        last_message_id |-> tag, archived |-> FALSE]

\* The parts a server's entry is put together from: a channel as
\* StateManager writes it ("direct"), a channel under the "channels" key
\* merge_state.py reads ("map"), a thread, another thread, a forum index
\* timestamp under StateManager's key ("index_update") and under
\* merge_state.py's key ("index_generation")
Components ==
    {"direct", "map", "thread", "thread2", "index_update", "index_generation"}

\* The choices of parts and their timestamps
Choices ==
    {EmptyDict}
    \cup {c :> t : c \in Components,
                   t \in LeafTimes \ {"missing"}}
    \cup {c :> "missing" : c \in {"direct", "map", "thread"}}
    \cup {(c1 :> t1) @@ (c2 :> t2) :
            c1 \in Components, c2 \in Components \ {"thread2"},
            t1 \in PairTimes, t2 \in PairTimes}

\* The forum entry of a choice
ForumOf(ch, tag) ==
    Opt("thread" \in DOMAIN ch \/ "thread2" \in DOMAIN ch, "threads",
        Opt("thread" \in DOMAIN ch, "301",
            ThreadLeaf(Get(ch, "thread", Null), tag))
        @@ Opt("thread2" \in DOMAIN ch, "302",
               ThreadLeaf(Get(ch, "thread2", Null), tag)))
    @@ Opt("index_update" \in DOMAIN ch, "last_index_update",
           Get(ch, "index_update", Null))
    @@ Opt("index_generation" \in DOMAIN ch, "last_index_generation",
           Get(ch, "index_generation", Null))

\* The server entry of a choice
ServerOf(ch, tag) ==
    Opt("direct" \in DOMAIN ch, "general",
        ChanLeaf(Get(ch, "direct", Null), tag))
    @@ Opt("map" \in DOMAIN ch, "channels",
           "general" :> ChanLeaf(Get(ch, "map", Null), tag))
    @@ Opt(DOMAIN ch \cap {"thread", "thread2", "index_update",
                           "index_generation"} # {},
           "forums", "questions" :> ForumOf(ch, tag))

\* The documents a side may hold
Docs(tag) ==
    {EmptyDict, "other" :> ("general" :> ChanLeaf(IsoFormat(1), tag))}
    \cup {S :> ServerOf(ch, tag) : ch \in Choices}

InitMerge ==
    /\ ExportOff
    /\ StoreOff
    /\ NamesOff
    /\ ClassOff
    /\ FaultsOff
    /\ CaptureOff
    /\ OrgOff
    /\ clock = 0
    /\ config = CHOOSE c \in Configs : c.exclude_channels = <<>> /\ Len(c.formats) = 1
    /\ listing = "flat"
    /\ ours \in Docs("ours")
    /\ theirs \in Docs("theirs")
    /\ merged = EmptyDict
    /\ mpc = "input"
    /\ base = EmptyDict
    /\ wrote = EmptyDict

NextMerge == MergeStates

SpecMerge == InitMerge /\ [][NextMerge]_vars

\* The value of a document at a path of keys
RECURSIVE At(_, _)
At(doc, p) == IF p = <<>> THEN doc ELSE At(doc[Head(p)], Tail(p))

\* A document has the path
RECURSIVE Has(_, _)
Has(doc, p) ==
    \/ p = <<>>
    \/ /\ Head(p) \in DOMAIN doc
       /\ Has(doc[Head(p)], Tail(p))

\* The paths of a document, level by level
ServerPaths(doc) == {<<sv>> : sv \in DOMAIN doc}

DirectChannelPaths(doc) ==
    UNION {{<<sv, ch>> : ch \in DOMAIN doc[sv] \ {"forums", "channels"}} :
            sv \in DOMAIN doc}

MapChannelPaths(doc) ==
    UNION {{<<sv, "channels", ch>> : ch \in DOMAIN doc[sv]["channels"]} :
            sv \in {x \in DOMAIN doc : "channels" \in DOMAIN doc[x]}}

ForumPaths(doc) ==
    UNION {{<<sv, "forums", f>> : f \in DOMAIN doc[sv]["forums"]} :
            sv \in {x \in DOMAIN doc : "forums" \in DOMAIN doc[x]}}

ThreadPaths(doc) ==
    UNION {{p \o <<"threads", t>> : t \in DOMAIN At(doc, p)["threads"]} :
            p \in {q \in ForumPaths(doc) : "threads" \in DOMAIN At(doc, q)}}

IndexPaths(doc) ==
    UNION {{p \o <<k>> : k \in DOMAIN At(doc, p)
                               \cap {"last_index_update",
                                     "last_index_generation"}} :
            p \in ForumPaths(doc)}

ChannelPaths(doc) == DirectChannelPaths(doc) \cup MapChannelPaths(doc)

\* The leaves that carry a timestamp: channel entries, thread entries and
\* forum index timestamps
LeafPaths(doc) == ChannelPaths(doc) \cup ThreadPaths(doc) \cup IndexPaths(doc)

\* The keyed levels: servers, channels, forums and threads
NodePaths(doc) ==
    ServerPaths(doc) \cup ChannelPaths(doc) \cup ForumPaths(doc)
    \cup ThreadPaths(doc)

\* The instant a leaf's timestamp parses to, NoTime when it has none, is
\* null or does not parse
LeafTime(doc, p) ==
    IF p \in IndexPaths(doc)
    THEN parse_timestamp(At(doc, p))
    ELSE parse_timestamp(Get(At(doc, p), "last_export", Null))

CommonLeaves == LeafPaths(ours) \cap LeafPaths(theirs)

\* C6: a leaf present on both sides with two usable timestamps is taken
\* wholesale from the side with the later timestamp, and from ours when the
\* two are equal.
C6_LaterTimestampWins ==
    mpc = "merged" =>
        \A p \in CommonLeaves :
            (LeafTime(ours, p) # NoTime /\ LeafTime(theirs, p) # NoTime) =>
                /\ Has(merged, p)
                /\ At(merged, p) =
                      IF LeafTime(theirs, p) > LeafTime(ours, p)
                      THEN At(theirs, p) ELSE At(ours, p)

\* C7: a leaf present on both sides with exactly one usable timestamp is
\* taken from the side with the usable timestamp; with no usable timestamp
\* on either side it is taken from ours.
C7_UsableTimestampWins ==
    mpc = "merged" =>
        \A p \in CommonLeaves :
            /\ Has(merged, p)
            /\ (LeafTime(ours, p) = NoTime /\ LeafTime(theirs, p) # NoTime)
                  => At(merged, p) = At(theirs, p)
            /\ (LeafTime(ours, p) # NoTime /\ LeafTime(theirs, p) = NoTime)
                  => At(merged, p) = At(ours, p)
            /\ (LeafTime(ours, p) = NoTime /\ LeafTime(theirs, p) = NoTime)
                  => At(merged, p) = At(ours, p)

\* C8: the merge is a key-wise union at every level: a server, channel,
\* forum or thread key is in the result exactly when it is on a side, and
\* one found on one side only is carried over unchanged.
C8_KeywiseUnion ==
    mpc = "merged" =>
        /\ NodePaths(merged) = NodePaths(ours) \cup NodePaths(theirs)
        /\ \A p \in NodePaths(ours) \ NodePaths(theirs) :
              Has(merged, p) /\ At(merged, p) = At(ours, p)
        /\ \A p \in NodePaths(theirs) \ NodePaths(ours) :
              Has(merged, p) /\ At(merged, p) = At(theirs, p)

\* No leaf present on both sides needs a tie-break: both timestamps parse
\* and they differ
NoTieBreak ==
    \A p \in CommonLeaves :
        /\ LeafTime(ours, p) # NoTime
        /\ LeafTime(theirs, p) # NoTime
        /\ LeafTime(ours, p) # LeafTime(theirs, p)

\* C9: when every leaf present on both sides has two parseable, unequal
\* timestamps, merging ours with theirs gives the same document as merging
\* theirs with ours.
C9_Commutative ==
    (mpc = "merged" /\ NoTieBreak) => merged = merge_states(theirs, ours)

\* A merge that took a thread from theirs, whose timestamp is the later one,
\* while ours holds a thread theirs has not
C9_Witness ==
    /\ mpc = "merged"
    /\ NoTieBreak
    /\ ThreadPaths(ours) \ ThreadPaths(theirs) # {}
    /\ \E p \in ThreadPaths(ours) \cap ThreadPaths(theirs) :
          /\ LeafTime(theirs, p) > LeafTime(ours, p)
          /\ Has(merged, p)
          /\ At(merged, p) = At(theirs, p)
          /\ At(merged, p) # At(ours, p)

-----------------------------------------------------------------------------
(* Two export runs from a common ancestor, reconciled by merge_states.     *)

\* The entities the two runs export, in listing order
RaceOrder ==
    << [channel_type |-> REGULAR,
        info |-> [channel_id |-> "101", channel_name |-> "general",
                  safe_name |-> "general", forum_name |-> ""]],
       [channel_type |-> THREAD,
        info |-> [channel_id |-> "301", channel_name |-> "How to start?",
                  safe_name |-> sanitize_thread_name("How to start?", "301"),
                  forum_name |-> "questions"]] >>

RaceKey(i) == EntityKey(S, RaceOrder[i].channel_type, RaceOrder[i].info)

\* An earlier run committed an entity: part of the common ancestor
BaseCommit ==
    /\ mpc = "base"
    /\ \E i \in DOMAIN RaceOrder :
        /\ ours' = save(UpdateChannelStateAfterExport(ours, S,
                        RaceOrder[i].channel_type, RaceOrder[i].info, clock))
        /\ theirs' = ours'
    /\ UNCHANGED <<merged, mpc, base, wrote, clock, exportRest, orgVars, storeVars, restVars>>

\* An earlier process stamped the forum index: part of the common ancestor
BaseIndex ==
    /\ mpc = "base"
    /\ ours' = save(update_forum_index_timestamp(ours, S, "questions", clock))
    /\ theirs' = ours'
    /\ UNCHANGED <<merged, mpc, base, wrote, clock, exportRest, orgVars, storeVars, restVars>>

\* Time passes
Tick ==
    /\ mpc \in {"base", "race"}
    /\ clock < MaxClock
    /\ clock' = clock + 1
    /\ UNCHANGED <<mergeVars, exportRest, orgVars, storeVars, restVars>>

\* Two runs start from the same state.json
Fork ==
    /\ mpc = "base"
    /\ mpc' = "race"
    /\ base' = ours
    /\ UNCHANGED <<ours, theirs, merged, wrote, clock, exportRest, orgVars, storeVars, restVars>>

\* One of the two runs commits its next entity, in listing order, to its own
\* copy of state.json
RaceCommit ==
    /\ mpc = "race"
    /\ \E side \in {"ours", "theirs"}, i \in DOMAIN RaceOrder :
        LET doc == IF side = "ours" THEN ours ELSE theirs
            new == save(UpdateChannelStateAfterExport(doc, S,
                        RaceOrder[i].channel_type, RaceOrder[i].info, clock))
        IN  /\ \A j \in DOMAIN RaceOrder :
                  RaceKey(j) \in DOMAIN wrote[side] => j < i
            /\ wrote' = [wrote EXCEPT ![side] =
                            Put(@, RaceKey(i), IsoFormat(clock))]
            /\ IF side = "ours"
               THEN ours' = new /\ UNCHANGED theirs
               ELSE theirs' = new /\ UNCHANGED ours
    /\ UNCHANGED <<merged, mpc, base, clock, exportRest, orgVars, storeVars, restVars>>

InitRace ==
    /\ ExportOff
    /\ StoreOff
    /\ NamesOff
    /\ ClassOff
    /\ FaultsOff
    /\ CaptureOff
    /\ OrgOff
    /\ clock = 1
    /\ config = CHOOSE c \in Configs : c.exclude_channels = <<>> /\ Len(c.formats) = 1
    /\ listing = "flat"
    /\ ours = EmptyDict
    /\ theirs = EmptyDict
    /\ merged = EmptyDict
    /\ mpc = "base"
    /\ base = EmptyDict
    /\ wrote = [ours |-> EmptyDict, theirs |-> EmptyDict]

NextRace ==
    \/ BaseCommit
    \/ BaseIndex
    \/ Tick
    \/ Fork
    \/ RaceCommit
    \/ MergeStates

SpecRace == InitRace /\ [][NextRace]_vars

\* C5: merge_states is idempotent on every snapshot the StateManager writes:
\* merging a snapshot with itself returns it.
C5_MergeIdempotent ==
    (mpc = "merged" /\ ours = theirs) => merged = ours

\* The later of two timestamp texts
Later(a, b) == IF parse_timestamp(a) >= parse_timestamp(b) THEN a ELSE b

\* C10: after two runs from a common ancestor, each of which committed an
\* entity and which left different documents, are merged, an entity both
\* runs committed carries the later of the two watermarks, an entity one run
\* committed carries that run's entry, and an entity neither committed keeps
\* the ancestor's entry.
C10_RaceReconciled ==
    (/\ mpc = "merged"
     /\ wrote.ours # EmptyDict
     /\ wrote.theirs # EmptyDict
     /\ ours # theirs) =>
        \A i \in DOMAIN RaceOrder :
            LET e == RaceKey(i)
                o == e \in DOMAIN wrote.ours
                t == e \in DOMAIN wrote.theirs
            IN  IF o /\ t
                THEN /\ Entry(merged, e) # None
                     /\ Entry(merged, e)["last_export"] =
                            Later(wrote.ours[e], wrote.theirs[e])
                ELSE IF o THEN Entry(merged, e) = Entry(ours, e)
                ELSE IF t THEN Entry(merged, e) = Entry(theirs, e)
                ELSE Entry(merged, e) = Entry(base, e)

-----------------------------------------------------------------------------
(* organize_exports.py: consolidation of the staged export files into the  *)
(* month buckets of the permanent archive.                                 *)

\* The calendar months a behaviour passes through
Months == <<"2025-11", "2025-12">>

\* get_current_month
get_current_month == Months[month]

\* Path.stem and Path.suffix of the staged file names
stem(name) ==
    CASE name = "general.json" -> "general"
      [] name = "how-to-start.json" -> "how-to-start"
      [] name = "notes.md" -> "notes"
      [] name = "general.html" -> "general"
      [] name = "how-to-start.html" -> "how-to-start"
      [] name = "avatar.png" -> "avatar"
      [] name = "announcements.html" -> "announcements"
      [] name = "attachment.jpg" -> "attachment"

suffix(name) ==
    CASE name = "general.json" -> ".json"
      [] name = "how-to-start.json" -> ".json"
      [] name = "notes.md" -> ".md"
      [] name = "general.html" -> ".html"
      [] name = "how-to-start.html" -> ".html"
      [] name = "avatar.png" -> ".png"
      [] name = "announcements.html" -> ".html"
      [] name = "attachment.jpg" -> ".jpg"

\* The extensions of export files
ExportSuffixes == {".html", ".txt", ".json", ".csv"}

\* An alias that is created when there is none and left alone otherwise
UpdateLatestSymlinkKeep(pub, target_dir, extension, current_month) ==
    IF target_dir \o <<"latest" \o extension>> \in DOMAIN pub.links
    THEN pub
    ELSE [pub EXCEPT !.links =
            Put(@, target_dir \o <<"latest" \o extension>>,
                current_month \o "/" \o current_month \o extension)]

\* _update_latest_symlink: the alias is removed when it exists and created
\* anew, pointing at the current month's file
UpdateLatestSymlink(pub, target_dir, extension, current_month) ==
    [pub EXCEPT !.links =
        Put(@, target_dir \o <<"latest" \o extension>>,
            current_month \o "/" \o current_month \o extension)]

\* _copy_to_month_directory: shutil.copy2 writes the staged file over the
\* month's file, then the alias is updated
CopyToMonthDirectory(pub, content, extension, target_dir, current_month) ==
    UpdateLatestSymlink(
        [pub EXCEPT !.files =
            Put(@, target_dir \o <<current_month, current_month \o extension>>,
                content)],
        target_dir, extension, current_month)

\* _organize_channel_file
OrganizeChannelFile(pub, path, content, current_month) ==
    LET name == path[Len(path)]
    IN  IF suffix(name) \notin ExportSuffixes
        THEN pub
        ELSE CopyToMonthDirectory(pub, content, suffix(name),
                                  <<path[1], stem(name)>>, current_month)

\* _organize_thread_file
OrganizeThreadFile(pub, path, content, current_month) ==
    LET name == path[Len(path)]
    IN  IF suffix(name) \notin ExportSuffixes
        THEN pub
        ELSE CopyToMonthDirectory(pub, content, suffix(name),
                                  <<path[1], path[2], stem(name)>>,
                                  current_month)

\* _process_server_directory and _process_forum_directory over the staged
\* files: a file right under the server directory is a channel file, a file
\* one directory deeper is a thread file, and what lies deeper is not looked at
RECURSIVE ProcessServerDirectory(_, _, _, _)
ProcessServerDirectory(pub, files, paths, current_month) ==
    IF paths = {} THEN pub
    ELSE LET path == CHOOSE q \in paths : TRUE
             done == IF Len(path) = 2
                     THEN OrganizeChannelFile(pub, path, files[path],
                                              current_month)
                     ELSE IF Len(path) = 3
                     THEN OrganizeThreadFile(pub, path, files[path],
                                             current_month)
                     ELSE pub
         IN  ProcessServerDirectory(done, files, paths \ {path},
                                    current_month)

\* A message of a ledger
Message(id, content) == [id |-> id, content |-> content]

\* The ledger the exporter writes for a list of messages
Ledger(messages) == [messages |-> messages, messageCount |-> Len(messages)]

\* The ledgers a run of the exporter may stage for a channel: the messages
\* it fetched, in ascending order of id
StagedLedgers ==
    {Ledger(<<Message("1000", c)>>) : c \in {"first", "edited"}}
    \cup {Ledger(<<Message("1001", "second")>>),
          Ledger(<<Message("1002", "third")>>),
          Ledger(<<Message("1001", "second"), Message("1002", "third")>>)}
    \cup {Ledger(<<Message("1000", c), Message("1001", "second")>>) :
            c \in {"first", "edited"}}
    \cup {Ledger(<<Message("1000", c), Message("1002", "third")>>) :
            c \in {"first", "edited"}}

\* The ledgers a run may stage for a thread
StagedThreadLedgers ==
    {Ledger(<<Message("1000", "first")>>),
     Ledger(<<Message("1000", "edited"), Message("1001", "second")>>)}

\* The path of the staged channel ledger, thread ledger and a stray file
ChannelFile == <<S, "general.json">>
ThreadFile == <<S, "questions", "how-to-start.json">>
StrayFile == <<S, "notes.md">>

\* The month buckets the two ledgers are consolidated into
ChannelBucket(m) == <<S, "general", m, m \o ".json">>
ThreadBucket(m) == <<S, "questions", "how-to-start", m, m \o ".json">>

\* A run of the exporter leaves its files under exports/, over those of the
\* run before
Stage ==
    /\ opc \in {"staging", "organized"}
    /\ \E c \in StagedLedgers,
          t \in StagedThreadLedgers \cup {None},
          n \in BOOLEAN :
        staged' = (ChannelFile :> c)
                  @@ Opt(t # None, ThreadFile, t)
                  @@ Opt(n, StrayFile, "notes")
    /\ opc' = "staging"
    /\ UNCHANGED <<public, month, exportVars, mergeVars, storeVars, restVars>>

\* organize_exports
OrganizeExports ==
    /\ opc = "staging"
    /\ staged # EmptyDict
    /\ public' = ProcessServerDirectory(public, staged, DOMAIN staged,
                                        get_current_month)
    /\ opc' = "organized"
    /\ UNCHANGED <<staged, month, exportVars, mergeVars, storeVars, restVars>>

\* The calendar month rolls over
MonthRolls ==
    /\ opc \in {"staging", "organized"}
    /\ month < Len(Months)
    /\ month' = month + 1
    /\ UNCHANGED <<staged, public, opc, exportVars, mergeVars, storeVars, restVars>>

InitOrg ==
    /\ ExportOff
    /\ StoreOff
    /\ NamesOff
    /\ ClassOff
    /\ FaultsOff
    /\ CaptureOff
    /\ MergeOff
    /\ clock = 0
    /\ config = CHOOSE c \in Configs : c.exclude_channels = <<>> /\ Len(c.formats) = 1
    /\ listing = "flat"
    /\ staged = EmptyDict
    /\ public = [files |-> EmptyDict, links |-> EmptyDict]
    /\ month = 1
    /\ opc = "staging"

NextOrg ==
    \/ Stage
    \/ OrganizeExports
    \/ MonthRolls

SpecOrg == InitOrg /\ [][NextOrg]_vars

\* The message ids in ascending order
IdOrder == <<"1000", "1001", "1002">>

IdRank(id) == CHOOSE i \in DOMAIN IdOrder : IdOrder[i] = id

\* The ids of a ledger's messages
Ids(ledger) == {ledger.messages[i].id : i \in DOMAIN ledger.messages}

\* A ledger's messages are in ascending order of id, no id twice
SortedById(ledger) ==
    \A i, j \in DOMAIN ledger.messages :
        i < j => IdRank(ledger.messages[i].id) < IdRank(ledger.messages[j].id)

\* The month buckets that hold a ledger
LedgerBuckets(pub) ==
    {p \in DOMAIN pub.files : \E m \in DOMAIN Months :
        p \in {ChannelBucket(Months[m]), ThreadBucket(Months[m])}}

\* C3: a consolidation into a month bucket keeps every message id the bucket
\* held before it, and leaves the bucket's messages without duplicate ids
\* and in ascending order of id.
C3_LedgerMonotone ==
    [][\A p \in LedgerBuckets(public) :
          /\ p \in LedgerBuckets(public')
          /\ Ids(public.files[p]) \subseteq Ids(public'.files[p])
          /\ SortedById(public'.files[p])]_vars

\* The message of a ledger with an id
MessageOf(ledger, id) ==
    ledger.messages[CHOOSE i \in DOMAIN ledger.messages :
                        ledger.messages[i].id = id]

\* The union of two ledgers keyed by id: the content of d where both have
\* the id, ascending by id, messageCount recomputed
RECURSIVE UnionFrom(_, _, _)
UnionFrom(m, d, i) ==
    IF i > Len(IdOrder) THEN <<>>
    ELSE (IF IdOrder[i] \in Ids(d) THEN <<MessageOf(d, IdOrder[i])>>
          ELSE IF IdOrder[i] \in Ids(m) THEN <<MessageOf(m, IdOrder[i])>>
          ELSE <<>>)
         \o UnionFrom(m, d, i + 1)

LedgerUnion(m, d) == Ledger(UnionFrom(m, d, 1))

\* The staged file and the bucket of the two entities
Consolidated ==
    {[file |-> ChannelFile, bucket |-> ChannelBucket(get_current_month)],
     [file |-> ThreadFile, bucket |-> ThreadBucket(get_current_month)]}

\* C4: consolidating a staged ledger D into an existing bucket ledger M
\* yields the union of their messages keyed by id, with D's content for an
\* id in both, ascending by id, messageCount the number of merged messages;
\* without a bucket file the staged ledger becomes the bucket file.
C4_LedgerUnion ==
    [][(opc = "staging" /\ opc' = "organized") =>
          \A e \in Consolidated :
              e.file \in DOMAIN staged =>
                  /\ e.bucket \in DOMAIN public'.files
                  /\ public'.files[e.bucket] =
                        IF e.bucket \in DOMAIN public.files
                        THEN LedgerUnion(public.files[e.bucket],
                                         staged[e.file])
                        ELSE staged[e.file]]_vars

\* C24: consolidation is associative and monotonic on id-sets: a bucket M
\* consolidated with a delta D holds the ids of M and of D, so that M with D1
\* and then D2 holds the same ids as M with D1 and D2 at once, and the merged
\* ledger has at least as many messages as the longer of M and D
C24_LedgerAssociative ==
    [][(opc = "staging" /\ opc' = "organized") =>
          \A e \in Consolidated :
              (e.file \in DOMAIN staged /\ e.bucket \in DOMAIN public.files) =>
                  /\ Ids(public'.files[e.bucket]) =
                        Ids(public.files[e.bucket]) \cup Ids(staged[e.file])
                  /\ Len(public'.files[e.bucket].messages) >=
                        Len(public.files[e.bucket].messages)
                  /\ Len(public'.files[e.bucket].messages) >=
                        Len(staged[e.file].messages)]_vars

-----------------------------------------------------------------------------
(* StateManager on its file: json.dump, json.load and a process that can    *)
(* die between any two writes.                                              *)

\* The keys of a state document whose values are strings, booleans or null;
\* the value of every other key is a dict
LeafKeys ==
    {"last_export", "last_message_id", "name", "title", "archived",
     "last_index_update"}

\* The key under which the whole document is serialized
Root == ""

RECURSIVE DumpMembers(_, _)
RECURSIVE Dump(_, _)

\* json.dump of the value x stored under key: the tokens written, in order
Dump(x, key) ==
    IF key \in LeafKeys THEN << [t |-> "value", v |-> x] >>
    ELSE << [t |-> "{"] >> \o DumpMembers(x, DOMAIN x) \o << [t |-> "}"] >>

\* The members of the dict x that are still to be written
DumpMembers(x, keys) ==
    IF keys = {} THEN << >>
    ELSE LET k == CHOOSE key \in keys : TRUE
         IN  << [t |-> "key", s |-> k] >> \o Dump(x[k], k)
                 \o DumpMembers(x, keys \ {k})

\* A dump that writes the servers of the document and nothing below them
JsonDumpShallow(st) == Dump([k \in DOMAIN st |-> EmptyDict], Root)

\* json.dump(self.state, f): the text of the whole store
json_dump(st) == Dump(st, Root)

\* json.JSONDecodeError, as a parse result
DecodeError == [ok |-> FALSE, v |-> None, i |-> 0]

RECURSIVE ParseMembers(_, _, _)
RECURSIVE ParseValue(_, _)

\* The JSON value that starts at token i, and the position after it
ParseValue(toks, i) ==
    IF i > Len(toks) THEN DecodeError
    ELSE IF toks[i].t = "value" THEN [ok |-> TRUE, v |-> toks[i].v, i |-> i + 1]
    ELSE IF toks[i].t = "{" THEN ParseMembers(toks, i + 1, EmptyDict)
    ELSE DecodeError

\* The members of an object up to its closing brace, added to acc
ParseMembers(toks, i, acc) ==
    IF i > Len(toks) THEN DecodeError
    ELSE IF toks[i].t = "}" THEN [ok |-> TRUE, v |-> acc, i |-> i + 1]
    ELSE IF toks[i].t = "key"
    THEN LET r == ParseValue(toks, i + 1)
         IN  IF r.ok THEN ParseMembers(toks, r.i, Put(acc, toks[i].s, r.v))
             ELSE DecodeError
    ELSE DecodeError

\* json.load(f): the document of a text, or a decode error
json_load(toks) ==
    LET r == ParseValue(toks, 1)
    IN  IF r.ok /\ r.i = Len(toks) + 1 THEN r ELSE DecodeError

\* What load() raised instead of returning a document
RuntimeError == [RuntimeError |-> TRUE]

\* StateManager.load on the file: {} when it does not exist, the document it
\* holds, RuntimeError when it does not parse
LoadFile(f) ==
    IF ~f.exists THEN EmptyDict
    ELSE IF json_load(f.text).ok THEN json_load(f.text).v
    ELSE RuntimeError

\* What is at rest on disk: None for no file, the document of a file that
\* parses, RuntimeError for one that does not
AtRest(f) == IF ~f.exists THEN None ELSE LoadFile(f)

\* The calls a client makes on the store
Calls ==
    {[op |-> "update_channel", server |-> sv, channel |-> ch] :
        sv \in {"wafer-space", "other"}, ch \in {"general"}}
    \cup {[op |-> "update_thread_state", server |-> "wafer-space",
           forum |-> "questions", thread_id |-> id] : id \in {"301", "302"}}
    \cup {[op |-> "update_forum_index_timestamp", server |-> "wafer-space",
           forum |-> "questions"]}
    \cup {[op |-> "save"]}

\* The store after the call's assignments, before its save()
Applied(st, call, now) ==
    IF call.op = "update_channel"
    THEN update_channel(st, call.server, call.channel, IsoFormat(now),
                        "placeholder_message_id")
    ELSE IF call.op = "update_thread_state"
    THEN update_thread_state(st, call.server, call.forum,
             [thread_id |-> call.thread_id, thread_name |-> "how-to-start",
              thread_title |-> "How to start?", last_message_id |-> Null,
              archived |-> FALSE], now)
    ELSE IF call.op = "update_forum_index_timestamp"
    THEN update_forum_index_timestamp(st, call.server, call.forum, now)
    ELSE st

\* A fresh load of the file sees what the call wrote
Sees(doc, call, st) ==
    IF call.op = "update_channel"
    THEN get_channel_state(doc, call.server, call.channel)
             = get_channel_state(st, call.server, call.channel)
         /\ get_channel_state(doc, call.server, call.channel) # None
    ELSE IF call.op = "update_thread_state"
    THEN get_thread_state(doc, call.server, call.forum, call.thread_id)
             = get_thread_state(st, call.server, call.forum, call.thread_id)
         /\ get_thread_state(doc, call.server, call.forum, call.thread_id) # None
    ELSE IF call.op = "update_forum_index_timestamp"
    THEN "last_index_update" \in DOMAIN doc[call.server]["forums"][call.forum]
    ELSE TRUE

\* update_channel, update_thread_state, update_forum_index_timestamp or a
\* bare save(), up to the open() of save
StoreCall ==
    /\ spc = "ready"
    /\ clock < MaxClock
    /\ \E call \in Calls :
        /\ state' = Applied(state, call, clock + 1)
        /\ prior' = [call |-> call, before |-> AtRest(stateFile),
                     after |-> Applied(state, call, clock + 1)]
    /\ clock' = clock + 1
    /\ spc' = "save"
    /\ UNCHANGED <<stateFile, disk, exportRests, mergeVars, orgVars, restVars>>

\* save: open(self.state_path, "w") creates the file or cuts it to nothing
SaveOpen ==
    /\ spc = "save"
    /\ stateFile' = [exists |-> TRUE, text |-> << >>]
    /\ spc' = "dump"
    /\ UNCHANGED <<prior, exportVars, mergeVars, orgVars, restVars>>

\* save: json.dump hands the next piece of the text to the file
SaveWrite ==
    /\ spc = "dump"
    /\ Len(stateFile.text) < Len(json_dump(state))
    /\ stateFile' = [stateFile EXCEPT !.text =
                    Append(@, json_dump(state)[Len(stateFile.text) + 1])]
    /\ UNCHANGED <<spc, prior, exportVars, mergeVars, orgVars, restVars>>

\* save: the with block closes the file and the call returns
SaveClose ==
    /\ spc = "dump"
    /\ Len(stateFile.text) = Len(json_dump(state))
    /\ spc' = "ready"
    /\ UNCHANGED <<stateFile, prior, exportVars, mergeVars, orgVars, restVars>>

\* The process dies: what it wrote stays, what it held in memory is gone
Crash ==
    /\ spc \in {"ready", "save", "dump"}
    /\ spc' = "dead"
    /\ UNCHANGED <<stateFile, prior, exportVars, mergeVars, orgVars, restVars>>

\* A new process: StateManager() and load()
Restart ==
    /\ spc = "dead"
    /\ IF LoadFile(stateFile) = RuntimeError
       THEN spc' = "failed" /\ state' = EmptyDict
       ELSE spc' = "ready" /\ state' = LoadFile(stateFile)
    /\ prior' = [prior EXCEPT !.call = [op |-> "none"]]
    /\ UNCHANGED <<stateFile, disk, clock, exportRests, mergeVars, orgVars, restVars>>

InitCrash ==
    /\ ExportOff
    /\ MergeOff
    /\ OrgOff
    /\ clock = 0
    /\ config = CHOOSE c \in Configs : c.exclude_channels = <<>> /\ Len(c.formats) = 1
    /\ listing = "flat"
    /\ NamesOff
    /\ ClassOff
    /\ FaultsOff
    /\ CaptureOff
    /\ stateFile = [exists |-> FALSE, text |-> <<>>]
    /\ spc = "ready"
    /\ prior = [call |-> [op |-> "none"], before |-> None, after |-> None]

NextCrash ==
    \/ StoreCall
    \/ SaveOpen
    \/ SaveWrite
    \/ SaveClose
    \/ Crash
    \/ Restart

SpecCrash == InitCrash /\ [][NextCrash]_vars

\* C11: at every instant, a crash inside save() included, the file is absent
\* or a complete valid JSON document equal to the store's content before or
\* after that save, never a truncated or partly written file
C11_SaveAtomic ==
    \/ ~stateFile.exists
    \/ /\ json_load(stateFile.text).ok
       /\ AtRest(stateFile) \in {prior.before, prior.after}

\* C13: when update_channel, update_thread_state or
\* update_forum_index_timestamp has returned, the document on disk equals the
\* store in memory and a fresh load of the file sees the update
C13_FlushedOnReturn ==
    spc = "ready" =>
        /\ LoadFile(stateFile) = state
        /\ Sees(LoadFile(stateFile), prior.call, state)

\* An update of a thread has returned on top of an earlier update
C13_Witness ==
    /\ spc = "ready"
    /\ prior.call.op = "update_thread_state"
    /\ prior.before # None
    /\ stateFile.exists
    /\ "general" \in DOMAIN state["wafer-space"]

-----------------------------------------------------------------------------
(* An export run that is killed.                                            *)

\* The process is killed between two steps of export_all_channels: nothing
\* is written
Kill ==
    /\ orch.pc \in {"fetch", "channel", "export", "save"}
    /\ orch' = [orch EXCEPT !.pc = "killed"]
    /\ UNCHANGED <<state, disk, clock, summary, config, listing, exportsDir,
                   log, runStart, committed, listed>>
    /\ UNCHANGED <<mergeVars, orgVars, storeVars, restVars>>

\* The process is killed inside the state_manager.save() that ends the run:
\* the file was opened for writing and holds the part of the dump that had
\* reached it
KilledInSave ==
    /\ orch.pc = "save"
    /\ LET text == json_dump(state)
       IN  \E n \in 0 .. (Len(text) - 1) :
               disk' = AtRest([exists |-> TRUE, text |-> SubSeq(text, 1, n)])
    /\ orch' = [orch EXCEPT !.pc = "killed"]
    /\ UNCHANGED <<state, clock, summary, config, listing, exportsDir, log,
                   runStart, committed, listed>>
    /\ UNCHANGED <<mergeVars, orgVars, storeVars, restVars>>

InitKill ==
    /\ ExportOff
    /\ StoreOff
    /\ NamesOff
    /\ ClassOff
    /\ FaultsOff
    /\ CaptureOff
    /\ OrgOff
    /\ MergeOff
    /\ clock = 0
    /\ config \in {c \in Configs : Len(c.formats) = 1}
    /\ listing = "flat"

NextKill ==
    \/ StartRun
    \/ FetchChannels
    \/ EndGuild
    \/ ProcessChannel
    \/ RunExport
    \/ SaveState
    \/ Kill
    \/ KilledInSave

SpecKill == InitKill /\ [][NextKill]_vars

\* C12: when a run is killed, the tracking state on disk is the state at run
\* start plus the commits of the entities whose formats all succeeded before
\* the kill; every other entity keeps its state from before the run
C12_KillKeepsCommits ==
    orch.pc = "killed" =>
        /\ disk # RuntimeError
        /\ \A x \in ListedEntities :
              Entry(disk, x.key) = IF SucceededInRun(x.key)
                                   THEN Entry(state, x.key)
                                   ELSE Entry(runStart.state, x.key)

-----------------------------------------------------------------------------
(* organize_exports.py: the latest aliases and the media directories.       *)

\* The export files and media files a run of the exporter may leave under
\* exports/: a channel in two formats, a thread, and the media directory
\* DiscordChatExporter writes next to each
ChannelHtml == <<S, "general.html">>
ThreadHtml == <<S, "questions", "how-to-start.html">>
ChannelMedia == {<<S, "general_media", "avatar.png">>, <<S, "general_media", "attachment.jpg">>}
ThreadMedia == {<<S, "questions", "how-to-start_media", "avatar.png">>}
\* The file of a thread whose forum lies in a category: thread_dir is
\* server_dir / channel_path_map[forum], which is "Info/general"
CategoryThreadHtml == <<S, "Info", "general", "how-to-start.html">>
ExportPaths == {ChannelFile, ChannelHtml, ThreadHtml, CategoryThreadHtml}
StagedPaths == ExportPaths \cup ChannelMedia \cup ThreadMedia

\* The staging areas a run may leave: export files whose format succeeded,
\* and media only next to an export file
Stagings ==
    {ps \in SUBSET StagedPaths :
        /\ ps \cap ExportPaths # {}
        /\ ps \cap ChannelMedia # {} => ps \cap {ChannelFile, ChannelHtml} # {}
        /\ ps \cap ThreadMedia # {} => ThreadHtml \in ps}

\* A run of the exporter leaves its files under exports/
StageFiles ==
    /\ opc \in {"staging", "organized"}
    /\ \E ps \in Stagings : staged' = [q \in ps |-> "exported"]
    /\ opc' = "staging"
    /\ UNCHANGED <<public, month, exportVars, mergeVars, storeVars, restVars>>

\* The archive before the first consolidation: empty, or with an alias that
\* points at a file of an older layout, or with media of an earlier copy
Archives ==
    {[files |-> EmptyDict, links |-> EmptyDict],
     [files |-> (<<S, "general", "old-file.html">> :> "old"),
      links |-> (<<S, "general", "latest.html">> :> "old-file.html")],
     [files |-> (<<S, "general", Months[1], "general_media", "attachment.jpg">> :> "old"),
      links |-> EmptyDict]}

InitFiles ==
    /\ ExportOff
    /\ StoreOff
    /\ NamesOff
    /\ ClassOff
    /\ FaultsOff
    /\ CaptureOff
    /\ MergeOff
    /\ clock = 0
    /\ config = CHOOSE c \in Configs : c.exclude_channels = <<>> /\ Len(c.formats) = 1
    /\ listing = "flat"
    /\ staged = EmptyDict
    /\ public \in Archives
    /\ month = 1
    /\ opc = "staging"

NextFiles ==
    \/ StageFiles
    \/ OrganizeExports
    \/ MonthRolls

SpecFiles == InitFiles /\ [][NextFiles]_vars

\* The months in which the entity directory has a bucket file of the format
BucketMonths(dir, ext) ==
    {i \in DOMAIN Months :
        dir \o <<Months[i], Months[i] \o ext>> \in DOMAIN public.files}

\* The entity directories of the archive that hold a bucket file
BucketDirs ==
    {SubSeq(q, 1, Len(q) - 2) :
        q \in {r \in DOMAIN public.files :
                 /\ Len(r) >= 3
                 /\ \E i \in DOMAIN Months, ext \in ExportSuffixes :
                       /\ r[Len(r) - 1] = Months[i]
                       /\ r[Len(r)] = Months[i] \o ext}}

\* The greatest number of a nonempty set
Newest(set) == CHOOSE i \in set : \A j \in set : j <= i

\* C14: after any sequence of consolidation runs, for every entity and every
\* format with at least one bucket file, latest.<ext> exists in the entity
\* directory and points to <month>/<month>.<ext> of the newest month that has
\* a bucket file of that format; an alias that was there before is replaced
C14_LatestIsNewest ==
    \A dir \in BucketDirs, ext \in ExportSuffixes :
        BucketMonths(dir, ext) # {} =>
            LET newest == Months[Newest(BucketMonths(dir, ext))]
            IN  /\ dir \o <<"latest" \o ext>> \in DOMAIN public.links
                /\ public.links[dir \o <<"latest" \o ext>>]
                       = newest \o "/" \o newest \o ext

\* A second consolidation, a month after the first, has replaced the alias
\* of an older layout and the alias of the first month, while a format that
\* was staged in the first month only keeps its alias
C14_Witness ==
    /\ opc = "organized"
    /\ month = 2
    /\ <<S, "general", "old-file.html">> \in DOMAIN public.files
    /\ BucketMonths(<<S, "general">>, ".html") = {1, 2}
    /\ BucketMonths(<<S, "general">>, ".json") = {1}
    /\ BucketMonths(<<S, "questions", "how-to-start">>, ".html") = {2}

\* The media files staged next to the export files of an entity, by name
MediaOf(dir) ==
    {q \in DOMAIN staged :
        /\ Len(q) = Len(dir) + 1
        /\ SubSeq(q, 1, Len(dir) - 1) = SubSeq(dir, 1, Len(dir) - 1)
        /\ q[Len(dir)] = dir[Len(dir)] \o "_media"}

\* The media files of an entity's bucket in the archive, by name
BucketMedia(dir, m) ==
    {q \in DOMAIN public.files :
        /\ Len(q) = Len(dir) + 3
        /\ SubSeq(q, 1, Len(dir)) = dir
        /\ q[Len(dir) + 1] = m
        /\ q[Len(dir) + 2] = dir[Len(dir)] \o "_media"}

\* C20: once staged files are consolidated, the bucket of each staged entity
\* holds under <entity>_media the media files staged with it and no others,
\* and the bucket of an entity staged without media gets none (it holds at
\* most the media an earlier consolidation left there)
C20_MediaCopied ==
    opc = "organized" =>
        \A dir \in {<<S, "general">>, <<S, "questions", "how-to-start">>} :
            dir \o <<get_current_month>> \in
                    {SubSeq(q, 1, Len(dir) + 1) :
                        q \in {r \in DOMAIN public.files : Len(r) > Len(dir)}}
            => IF MediaOf(dir) # {}
               THEN {q[Len(q)] : q \in BucketMedia(dir, get_current_month)}
                        = {q[Len(q)] : q \in MediaOf(dir)}
               ELSE \A q \in BucketMedia(dir, get_current_month) :
                        public.files[q] = "old"

-----------------------------------------------------------------------------
(* sanitize_thread_name on titles and ids of every shape.                   *)

\* n times the character c
Run(c, n) == [i \in 1 .. n |-> c]

\* The titles: an optional hyphen, a run of letters that is short, or as
\* long as a name may get, or longer, and an ending of spaces, hyphens,
\* capitals, punctuation and non-ASCII symbols
TitleChars ==
    {head \o Run("a", n) \o tail :
        head \in {<< >>, <<"-">>},
        n \in {0, 1, 2, 3, MaxNameLen - 2, MaxNameLen - 1, MaxNameLen,
               MaxNameLen + 1, MaxNameLen + 50},
        tail \in {<< >>, <<"?">>, <<" ">>, <<" ", "B">>, <<"-", "-", "b">>,
                  <<"?", "!">>, <<" ", "-", " ">>, <<"W">>}}

\* The fallback ids: none, Discord ids, and an id so long that "thread-" and
\* the id together pass the length a name may get
IdChars ==
    {<< >>, <<"7">>, <<"3", "0", "1">>, Run("1", MaxNameLen - 7),
     Run("1", MaxNameLen - 6)}

\* safe_name = sanitize_thread_name(title, thread_id)
Sanitize ==
    /\ names = << >>
    /\ rawTitle # << >>
    /\ names' = << SanitizeChars(rawTitle, threadId) >>
    /\ UNCHANGED <<rawTitle, threadId, classVars, faultVars, captureVars, exportVars, mergeVars, orgVars, storeVars>>

\* The name is sanitized again, with the same id
SanitizeAgain ==
    /\ Len(names) = 1
    /\ names' = Append(names, SanitizeChars(names[1], threadId))
    /\ UNCHANGED <<rawTitle, threadId, classVars, faultVars, captureVars, exportVars, mergeVars, orgVars, storeVars>>

InitNames ==
    /\ ExportOff
    /\ StoreOff
    /\ MergeOff
    /\ OrgOff
    /\ clock = 0
    /\ config = CHOOSE c \in Configs : c.exclude_channels = <<>> /\ Len(c.formats) = 1
    /\ listing = "flat"
    /\ ClassOff
    /\ FaultsOff
    /\ CaptureOff
    /\ rawTitle \in TitleChars \ {<< >>}
    /\ threadId \in IdChars
    /\ names = << >>

NextNames ==
    \/ Sanitize
    \/ SanitizeAgain

SpecNames == InitNames /\ [][NextNames]_vars

\* C21: sanitize_thread_name is idempotent: for every title, of any length,
\* and every fallback id, sanitizing the sanitized name again with the same
\* id gives the same name
C21_Idempotent == Len(names) = 2 => names[2] = names[1]

\* C22: for every title and every fallback id, the returned name has at most
\* 100 characters, it is the fallback thread-<id> whenever the cleaned title
\* has fewer than 3 characters, and it is never empty
C22_NameLength ==
    (Len(names) >= 1 /\ threadId # << >>) =>
        /\ Len(names[1]) <= MaxNameLen
        /\ Len(Cleaned(rawTitle)) < MinNameLen => names[1] = Fallback(threadId)
        /\ Len(names[1]) >= MinNameLen

\* C22, for the ids that leave room for "thread-" within the 100 characters
\* (every Discord id does): the returned name has at most 100 characters, it
\* is the fallback thread-<id> whenever the cleaned title has fewer than 3
\* characters, and it never has fewer than 3 characters
C22_NameLengthShortId ==
    (Len(names) >= 1 /\ threadId # << >>
        /\ Len(Fallback(threadId)) <= MaxNameLen) =>
        /\ Len(names[1]) <= MaxNameLen
        /\ Len(Cleaned(rawTitle)) < MinNameLen => names[1] = Fallback(threadId)
        /\ Len(names[1]) >= MinNameLen

\* A title of punctuation only got the fallback name, of exactly 100
\* characters
C22_Witness ==
    /\ Len(names) >= 1
    /\ rawTitle = <<"?", "!">>
    /\ names[1] = Fallback(threadId)
    /\ Len(names[1]) = MaxNameLen

-----------------------------------------------------------------------------
(* classify_channel on records, forum lists and sibling lists of every      *)
(* shape.                                                                   *)

\* The records of a listing: with no parent reference, an empty one, the
\* name of a channel, the word DiscordChatExporter prints for a thread
Records ==
    {[id |-> id, name |-> nm, parent_id |-> par] :
        id \in {"101"},
        nm \in {"general", "questions"},
        par \in {Null, "", "questions", "Thread"}}

\* The other records of the listing: a channel, a thread of each of the two
\* names, and a channel with an empty parent reference
SiblingRecords ==
    {[id |-> "200", name |-> "questions", parent_id |-> Null],
     [id |-> "301", name |-> "How to start?", parent_id |-> "questions"],
     [id |-> "302", name |-> "Welcome", parent_id |-> "general"],
     [id |-> "102", name |-> "announcements", parent_id |-> ""]}

\* The forum lists of the configuration
ForumLists == {<< >>, <<"questions">>, <<"general", "questions">>}

\* The longest sibling list
MaxSiblings == 3

\* The orderings of a list
Orderings(seq) ==
    {[i \in DOMAIN seq |-> seq[f[i]]] :
        f \in {g \in [DOMAIN seq -> DOMAIN seq] :
                 \A i, j \in DOMAIN seq : g[i] = g[j] => i = j}}

\* One more record is listed
ListRecord ==
    /\ kinds = << >>
    /\ rec.id # ""
    /\ Len(siblings) < MaxSiblings
    /\ \E r \in SiblingRecords : siblings' = Append(siblings, r)
    /\ UNCHANGED <<rec, forums, kinds, nameVars, faultVars, captureVars, exportVars, mergeVars, orgVars, storeVars>>

\* channel_classifications[chan_id] = classify_channel(channel, forum_list,
\* channels), with the listing in its order and in another one
ClassifyRecord ==
    /\ kinds = << >>
    /\ rec.id # ""
    /\ \E other \in Orderings(siblings) :
        kinds' = << [order |-> siblings,
                     kind |-> classify_channel(rec, forums, siblings)],
                    [order |-> other,
                     kind |-> classify_channel(rec, forums, other)] >>
    /\ UNCHANGED <<rec, forums, siblings, nameVars, faultVars, captureVars, exportVars, mergeVars, orgVars, storeVars>>

InitClass ==
    /\ ExportOff
    /\ StoreOff
    /\ NamesOff
    /\ MergeOff
    /\ OrgOff
    /\ clock = 0
    /\ config = CHOOSE c \in Configs : c.exclude_channels = <<>> /\ Len(c.formats) = 1
    /\ listing = "flat"
    /\ FaultsOff
    /\ CaptureOff
    /\ rec \in Records
    /\ forums \in ForumLists
    /\ siblings = << >>
    /\ kinds = << >>

NextClass ==
    \/ ListRecord
    \/ ClassifyRecord

SpecClass == InitClass /\ [][NextClass]_vars

\* The parent references of the sibling list
ParentsOf(seq) == {seq[i].parent_id : i \in DOMAIN seq}

\* C23: classify_channel returns THREAD whenever the record's parent
\* reference is non-empty, whatever the forum list and the siblings are;
\* otherwise FORUM when its name is in the forum list or is the parent
\* reference of a sibling; otherwise REGULAR; and it returns the same for
\* every ordering of the sibling list
C23_ClassifyPriority ==
    \A k \in DOMAIN kinds :
        /\ kinds[k].kind =
              IF rec.parent_id \notin {Null, ""} THEN THREAD
              ELSE IF \/ rec.name \in {forums[i] : i \in DOMAIN forums}
                      \/ rec.name \in ParentsOf(siblings)
                   THEN FORUM
              ELSE REGULAR
        /\ kinds[k].kind = kinds[1].kind

\* A record with a parent reference whose name is in the forum list and is
\* the parent reference of a sibling was classified as a thread, with the
\* siblings in two different orders
C23_Witness ==
    /\ Len(kinds) = 2
    /\ kinds[1].order # kinds[2].order
    /\ rec.parent_id = "Thread"
    /\ rec.name \in {forums[i] : i \in DOMAIN forums}
    /\ rec.name \in ParentsOf(siblings)
    /\ kinds[1].kind = THREAD

-----------------------------------------------------------------------------
(* organize_exports.py: consolidation when the file system fails.           *)

\* What may go wrong for a staged file: nothing, month_dir.mkdir raises,
\* shutil.copy2 raises, or the update of the alias raises
Faults == {"none", "mkdir", "copy", "symlink"}

\* Two channel files, a thread file and a file that is no export
OtherChannelHtml == <<S, "announcements.html">>
FaultPaths == {ChannelHtml, OtherChannelHtml, ThreadHtml, StrayFile}

\* The bucket file of a staged export file
BucketOf(path, m) ==
    SubSeq(path, 1, Len(path) - 1)
        \o <<stem(path[Len(path)]), m, m \o suffix(path[Len(path)])>>

\* A run of the exporter has left its files under exports/, and the file
\* system will fail as faults says
StageWithFaults ==
    /\ opc = "staging"
    /\ staged = EmptyDict
    /\ \E ps \in SUBSET FaultPaths \ {{}} :
        /\ staged' = [q \in ps |-> "exported"]
        /\ faults' \in [ps -> Faults]
        /\ todo' = ps
    /\ stats' = [files_organized |-> 0, errors |-> <<>>]
    /\ opc' = "organizing"
    /\ UNCHANGED <<public, month, nameVars, classVars, captureVars, exportVars, mergeVars, storeVars>>

\* One file of the iterdir() loops: _organize_channel_file or
\* _organize_thread_file with _copy_to_month_directory, whose mkdir is
\* outside its try and whose copy and alias update are inside it
OrganizeFile ==
    /\ opc = "organizing"
    /\ \E path \in todo :
        LET name == path[Len(path)]
            copied == [public EXCEPT !.files =
                          Put(@, BucketOf(path, get_current_month), staged[path])]
            failed == [stats EXCEPT !.errors =
                          Append(@, "Failed to organize " \o name)]
        IN  /\ todo' = todo \ {path}
            /\ IF suffix(name) \notin ExportSuffixes
               THEN UNCHANGED <<public, stats, opc>>
               ELSE IF faults[path] = "mkdir"
               THEN /\ opc' = "aborted"
                    /\ UNCHANGED <<public, stats>>
               ELSE IF faults[path] = "copy"
               THEN /\ stats' = failed
                    /\ UNCHANGED <<public, opc>>
               ELSE IF faults[path] = "symlink"
               THEN /\ public' = copied
                    /\ stats' = failed
                    /\ UNCHANGED opc
               ELSE /\ public' = IF Len(path) = 2
                                 THEN OrganizeChannelFile(public, path,
                                          staged[path], get_current_month)
                                 ELSE OrganizeThreadFile(public, path,
                                          staged[path], get_current_month)
                    /\ stats' = [stats EXCEPT !.files_organized = @ + 1]
                    /\ UNCHANGED opc
    /\ UNCHANGED <<staged, month, faults, nameVars, classVars, captureVars, exportVars, mergeVars, storeVars>>

\* organize_exports returns its stats
OrganizeReturns ==
    /\ opc = "organizing"
    /\ todo = {}
    /\ opc' = "organized"
    /\ UNCHANGED <<staged, public, month, faultVars, nameVars, classVars, captureVars, exportVars, mergeVars, storeVars>>

InitFaults ==
    /\ ClassOff
    /\ FaultsOff
    /\ CaptureOff
    /\ ExportOff
    /\ StoreOff
    /\ NamesOff
    /\ MergeOff
    /\ clock = 0
    /\ config = CHOOSE c \in Configs : c.exclude_channels = <<>> /\ Len(c.formats) = 1
    /\ listing = "flat"
    /\ staged = EmptyDict
    /\ public = [files |-> EmptyDict, links |-> EmptyDict]
    /\ month = 1
    /\ opc = "staging"

NextFaults ==
    \/ StageWithFaults
    \/ OrganizeFile
    \/ OrganizeReturns

SpecFaults == InitFaults /\ [][NextFaults]_vars

\* The staged export files
StagedExports ==
    {q \in DOMAIN staged : suffix(q[Len(q)]) \in ExportSuffixes}

\* C25: a failure while consolidating one staged file (creating its bucket
\* directory, copying it, updating its alias) never aborts the run; when the
\* run returns, every failure is in the error list and every other staged
\* export file is in its bucket and counted
C25_BestEffort ==
    /\ opc # "aborted"
    /\ opc = "organized" =>
        /\ \A q \in StagedExports :
              faults[q] = "none" =>
                  BucketOf(q, get_current_month) \in DOMAIN public.files
        /\ stats.files_organized =
              Cardinality({q \in StagedExports : faults[q] = "none"})
        /\ Len(stats.errors) =
              Cardinality({q \in StagedExports : faults[q] # "none"})

-----------------------------------------------------------------------------
(* state.py: the entries of the store under any sequence of updates.        *)

\* The names the updates are called with; one channel is named as the key
\* under which update_thread_state keeps the forum map
StoreChannels == {"general", "forums"}
StoreForums == {"questions"}
StoreThreads == {"301", "302"}

StoreUpdates ==
    {[op |-> "update_channel", server |-> "wafer-space", channel |-> ch] :
        ch \in StoreChannels}
    \cup {[op |-> "update_thread_state", server |-> "wafer-space",
           forum |-> f, thread_id |-> id] : f \in StoreForums, id \in StoreThreads}
    \cup {[op |-> "update_forum_index_timestamp", server |-> "wafer-space",
           forum |-> f] : f \in StoreForums}

\* One call of update_channel, update_thread_state or
\* update_forum_index_timestamp, its save() included
StoreUpdate ==
    /\ \E call \in StoreUpdates :
        /\ state' = Applied(state, call, clock)
        /\ prior' = [call |-> call, before |-> state,
                     after |-> Applied(state, call, clock)]
        /\ disk' = save(Applied(state, call, clock))
    /\ UNCHANGED <<clock, stateFile, spc, exportRests, mergeVars, orgVars, restVars>>

\* Time passes between two calls
StoreTick ==
    /\ clock < MaxClock
    /\ clock' = clock + 1
    /\ UNCHANGED <<state, disk, storeVars, exportRests, mergeVars, orgVars, restVars>>

InitStore ==
    /\ ExportOff
    /\ MergeOff
    /\ OrgOff
    /\ StoreOff
    /\ NamesOff
    /\ ClassOff
    /\ FaultsOff
    /\ CaptureOff
    /\ clock = 0
    /\ config = CHOOSE c \in Configs : c.exclude_channels = <<>> /\ Len(c.formats) = 1
    /\ listing = "flat"

NextStore ==
    \/ StoreUpdate
    \/ StoreTick

SpecStore == InitStore /\ [][NextStore]_vars

\* The channel entry a call wrote: what update_channel stores
IsChannelEntry(e) ==
    e # None /\ DOMAIN e = {"last_export", "last_message_id"}

\* The channel entries and the thread entries of a store
ChannelEntries(st) ==
    {ch \in StoreChannels :
        IsChannelEntry(get_channel_state(st, "wafer-space", ch))}
ThreadEntries(st) ==
    {ft \in StoreForums \X StoreThreads :
        get_thread_state(st, "wafer-space", ft[1], ft[2]) # None}

\* C26: no update deletes an entry: every channel entry and every thread
\* entry present before a call is present after it, and unchanged unless the
\* call is an update of that very entity
C26_NeverDeleted ==
    prior.call.op # "none" =>
        /\ \A ch \in ChannelEntries(prior.before) :
              /\ ch \in ChannelEntries(prior.after)
              /\ (prior.call.op = "update_channel" /\ prior.call.channel = ch)
                 \/ get_channel_state(prior.after, "wafer-space", ch)
                      = get_channel_state(prior.before, "wafer-space", ch)
        /\ \A ft \in ThreadEntries(prior.before) :
              /\ ft \in ThreadEntries(prior.after)
              /\ (prior.call.op = "update_thread_state"
                     /\ prior.call.forum = ft[1] /\ prior.call.thread_id = ft[2])
                 \/ get_thread_state(prior.after, "wafer-space", ft[1], ft[2])
                      = get_thread_state(prior.before, "wafer-space", ft[1], ft[2])

-----------------------------------------------------------------------------
(* export_channels.py: what the exports of a channel read, and the          *)
(* watermark its commit writes.                                             *)

MaxTime == 5

\* The channel that is watched, as _process_single_channel sees it
Watched == [channel_id |-> "101", channel_name |-> "general",
            safe_name |-> "general", forum_name |-> Null]

\* The formats of the run
CaptureFormats == <<"html", "json">>

\* The messages an export with this cutoff reads: those posted after it
Window(after, msgs) ==
    {t \in msgs : FalsyStr(after) \/ t > parse_timestamp(after)}

\* A message is posted to the channel
Post ==
    /\ clock < MaxTime
    /\ posts' = posts \cup {clock}
    /\ clock' = clock + 1
    /\ UNCHANGED <<cap, state, disk, exportRests, mergeVars, orgVars, storeVars,
                   nameVars, classVars, faultVars>>

\* _process_single_channel up to its first export command: the cutoff is
\* read from the state
BeginCapture ==
    /\ cap.pc = "idle"
    /\ cap' = [cap EXCEPT !.pc = "export", !.f = 1, !.failures = 0,
                  !.seen = {},
                  !.after = GetLastExportTimestamp(load(disk), S, REGULAR,
                                Watched.channel_name, Watched.channel_id,
                                Watched.forum_name)]
    /\ state' = load(disk)
    /\ UNCHANGED <<posts, disk, clock, exportRests, mergeVars, orgVars, storeVars,
                   nameVars, classVars, faultVars>>

\* One export command of _export_channel_formats: the exporter reads the
\* messages of the channel that exist now and are later than the cutoff
ExportWindow ==
    /\ cap.pc = "export"
    /\ \E outcome \in Outcomes :
        LET res == run_export(outcome)
            last == cap.f = Len(CaptureFormats)
        IN  cap' = [cap EXCEPT
                      !.f = IF last THEN @ ELSE @ + 1,
                      !.pc = IF last THEN "commit" ELSE "export",
                      !.failures = IF res.success THEN @ ELSE @ + 1,
                      !.seen = IF res.success
                               THEN @ \cup Window(cap.after, posts) ELSE @]
    /\ UNCHANGED <<posts, state, disk, clock, exportRests, mergeVars, orgVars,
                   storeVars, nameVars, classVars, faultVars>>

\* The rest of _process_single_channel: with no failure the state is updated
\* with datetime.now() and saved
CommitCapture ==
    /\ cap.pc = "commit"
    /\ clock < MaxTime
    /\ IF ShouldCommit(Len(CaptureFormats) - cap.failures, cap.failures)
       THEN /\ state' = UpdateChannelStateAfterExport(state, S, REGULAR,
                            Watched, clock)
            /\ disk' = save(state')
            /\ cap' = [cap EXCEPT !.pc = "idle", !.kept = @ \cup cap.seen]
       ELSE /\ cap' = [cap EXCEPT !.pc = "idle"]
            /\ UNCHANGED <<state, disk>>
    /\ clock' = clock + 1
    /\ UNCHANGED <<posts, exportRests, mergeVars, orgVars, storeVars,
                   nameVars, classVars, faultVars>>

\* The run is interrupted before its commit
Interrupt ==
    /\ cap.pc \in {"export", "commit"}
    /\ cap' = [cap EXCEPT !.pc = "idle"]
    /\ UNCHANGED <<posts, state, disk, clock, exportRests, mergeVars, orgVars,
                   storeVars, nameVars, classVars, faultVars>>

InitCapture ==
    /\ ExportOff
    /\ MergeOff
    /\ OrgOff
    /\ StoreOff
    /\ NamesOff
    /\ ClassOff
    /\ FaultsOff
    /\ CaptureOff
    /\ clock = 1
    /\ config = CHOOSE c \in Configs : c.formats = CaptureFormats
    /\ listing = "flat"

NextCapture ==
    \/ Post
    \/ BeginCapture
    \/ ExportWindow
    \/ CommitCapture
    \/ Interrupt

SpecCapture == InitCapture /\ [][NextCapture]_vars

\* The watermark at rest for the channel
Watermark ==
    GetLastExportTimestamp(load(disk), S, REGULAR, Watched.channel_name,
                           Watched.channel_id, Watched.forum_name)

\* C27: every message that the committed watermark puts outside all later
\* cutoff windows was read by an export of a run that committed
C27_AtLeastOnce ==
    \A t \in posts :
        ~FalsyStr(Watermark) /\ t <= parse_timestamp(Watermark)
            => t \in cap.kept

-----------------------------------------------------------------------------
(* organize_exports.py: the archive mirrors the staged hierarchy.           *)

\* C28: after a consolidation every staged export file, at whatever depth
\* the orchestrator staged it, is in the archive at
\* server/<same path>/<entity>/<month>/<month>.<ext>
C28_MirrorsHierarchy ==
    opc = "organized" =>
        \A q \in DOMAIN staged \cap ExportPaths :
            \E k \in DOMAIN Months : BucketOf(q, Months[k]) \in DOMAIN public.files

-----------------------------------------------------------------------------
(* export_channels.py: the commands of one entity.                          *)

\* The entity whose formats are being exported
InProgress(e) ==
    /\ orch.pc = "export"
    /\ e = EntityKey(Servers[orch.g], orch.channel_type, orch.info)

\* The run has ended, by its return or by an error that left it
RunEnded == orch.run > 0 /\ orch.pc \in {"save", "idle", "crashed"}

\* The commands of the entity are the configured formats, each once, in
\* configuration order, one after the other, all with the same cutoff
AllFormatsOnce(e) ==
    \E k \in DOMAIN log :
        /\ CommandsOf(e) = k .. (k + Len(config.formats) - 1)
        /\ \A j \in DOMAIN config.formats :
              /\ log[k + j - 1].format = config.formats[j]
              /\ log[k + j - 1].after = log[k].after

\* C29: every included entity gets every configured format exactly once, in
\* configuration order and with one cutoff, whatever the outcome of an
\* earlier format; its state is not touched before its last format, and a
\* run that has ended has done so for every included entity it listed
C29_EveryFormatOnce ==
    /\ \A e \in Exported :
          IF InProgress(e)
          THEN /\ Entry(state, e) = Entry(runStart.state, e)
               /\ CommandsOf(e) = (Len(log) - orch.f + 2) .. Len(log)
          ELSE AllFormatsOnce(e)
    /\ RunEnded =>
          \A x \in ListedEntities :
              (Wanted(x.name) /\ listed[x.server].ok) => x.key \in Exported

-----------------------------------------------------------------------------
(* export_channels.py: the staged output paths of one run.                  *)

\* C30: within one run no two entities with different channel ids are
\* exported to the same output path
C30_DistinctPaths ==
    \A j, k \in DOMAIN log :
        log[j].path = log[k].path => log[j].id = log[k].id

=============================================================================
